---- MODULE Spec2Model ----
(***************************************************************************)
(* A model of zippy's editable ZIP archive (NewZipFile), its save          *)
(* procedure and the reader ZipFile.open, from                             *)
(* src/zippy/zipfile/zipfile.py and src/zippy/zipfile/_zipfile.py.         *)
(*                                                                         *)
(* Representation.  A Python str is a sequence of one-character strings,   *)
(* a Python bytes value is a sequence of numbers in 0..255.  A CRC-32 is   *)
(* a sequence of 32 bits, least significant bit first, because the model   *)
(* checker's integers are signed 32-bit.  A Python dict is a sequence of   *)
(* [k, v] items in insertion order.                                        *)
(***************************************************************************)
EXTENDS Integers, Sequences, FiniteSets, TLC

(***************************************************************************)
(* Bounds of the model.                                                    *)
(***************************************************************************)
MaxOps == 4

\* Op applied to the value of v: a result that is used several times is
\* bound to a name this way, so that it is computed once.
With(v, Op(_)) == CHOOSE y \in { Op(x) : x \in {v} } : TRUE

(***************************************************************************)
(* Characters and strings.                                                 *)
(***************************************************************************)
BS == "\\"
FS == "/"
DOT == "."

\* ord(c) for the characters the model's inputs are made of.
Ord(c) ==
    CASE c = "#" -> 35
      [] c = "." -> 46
      [] c = "/" -> 47
      [] c = "L" -> 76
      [] c = "N" -> 78
      [] c = "S" -> 83
      [] c = "T" -> 84
      [] c = "\\" -> 92
      [] c = "a" -> 97
      [] c = "b" -> 98
      [] c = "c" -> 99
      [] c = "f" -> 102
      [] c = "x" -> 120
      [] c = "z" -> 122

\* str.encode('utf-8') on ASCII text.
EncodeStr(s) == [i \in 1..Len(s) |-> Ord(s[i])]

\* s[i:j] of Python, 0-based, end exclusive, clipped to the string.
Slice(s, i, j) ==
    LET lo == IF i < 0 THEN 0 ELSE i
        hi == IF j > Len(s) THEN Len(s) ELSE j
    IN  IF hi <= lo THEN << >> ELSE SubSeq(s, lo + 1, hi)

\* str.replace(old, new) for single characters.
Replace(s, old, new) == [i \in 1..Len(s) |-> IF s[i] = old THEN new ELSE s[i]]

\* str.startswith
StartsWith(s, p) == Len(p) <= Len(s) /\ SubSeq(s, 1, Len(p)) = p

\* 'p in s' on strings: p occurs in s as a contiguous substring.
IsSubstr(p, s) ==
    \E i \in 0..(Len(s) - Len(p)) : SubSeq(s, i + 1, i + Len(p)) = p

\* str.removeprefix
RemovePrefix(s, p) == IF StartsWith(s, p) THEN Slice(s, Len(p), Len(s)) ELSE s

\* Python's string order: lexicographic by code point, a proper prefix first.
RECURSIVE StrLess(_, _)
StrLess(a, b) ==
    IF b = << >> THEN FALSE
    ELSE IF a = << >> THEN TRUE
    ELSE IF Ord(a[1]) # Ord(b[1]) THEN Ord(a[1]) < Ord(b[1])
    ELSE StrLess(Tail(a), Tail(b))

\* str.split(sep) for a single-character separator.
RECURSIVE SplitAcc(_, _, _)
SplitAcc(s, sep, cur) ==
    IF s = << >> THEN << cur >>
    ELSE IF s[1] = sep THEN << cur >> \o SplitAcc(Tail(s), sep, << >>)
    ELSE SplitAcc(Tail(s), sep, Append(cur, s[1]))

Split(s, sep) == SplitAcc(s, sep, << >>)

\* sep.join(parts)
RECURSIVE Join(_, _)
Join(parts, sep) ==
    IF parts = << >> THEN << >>
    ELSE IF Len(parts) = 1 THEN parts[1]
    ELSE parts[1] \o sep \o Join(Tail(parts), sep)

RECURSIVE Concat(_)
Concat(seqs) == IF seqs = << >> THEN << >> ELSE seqs[1] \o Concat(Tail(seqs))

RECURSIVE SumLens(_)
SumLens(seqs) == IF seqs = << >> THEN 0 ELSE Len(seqs[1]) + SumLens(Tail(seqs))

(***************************************************************************)
(* Bytes and fixed-width integers.                                         *)
(***************************************************************************)
RECURSIVE Pow(_, _)
Pow(b, e) == IF e = 0 THEN 1 ELSE b * Pow(b, e - 1)

\* int.to_bytes(n, 'little') for values below 2^31; the bytes above the
\* fourth are zero for such values.
ToBytes(x, n) == [i \in 1..n |-> IF i <= 4 THEN (x \div Pow(256, i - 1)) % 256 ELSE 0]

\* int.from_bytes(bs, 'little')
RECURSIVE FromBytes(_)
FromBytes(bs) == IF bs = << >> THEN 0 ELSE bs[1] + 256 * FromBytes(Tail(bs))

BitsOfByte(b) == [i \in 1..8 |-> (b \div Pow(2, i - 1)) % 2]

RECURSIVE BitsToNat(_)
BitsToNat(bits) == IF bits = << >> THEN 0 ELSE bits[1] + 2 * BitsToNat(Tail(bits))

\* A 32-bit word as 32 bits, least significant first, from its 4 little-endian bytes.
Word32(bs) == BitsOfByte(bs[1]) \o BitsOfByte(bs[2]) \o BitsOfByte(bs[3]) \o BitsOfByte(bs[4])

\* word.to_bytes(4, 'little')
WordBytes(w) == [i \in 1..4 |-> BitsToNat(SubSeq(w, 8 * i - 7, 8 * i))]

\* The bitwise exclusive or of two words, written out as a sequence.
Xor32(a, b) == [i \in 1..32 |-> (a[i] + b[i]) % 2] \o << >>

Shr1(w) == Tail(w) \o << 0 >>

(***************************************************************************)
(* zlib.crc32: the reflected CRC-32 with polynomial 0xEDB88320.            *)
(***************************************************************************)
CrcPoly == Word32(<< 32, 131, 184, 237 >>)

AllOnes32 == [i \in 1..32 |-> 1]

\* n shift steps on the word w: a step shifts right by one bit and takes in
\* the polynomial when the bit shifted out is set.  The n steps are taken
\* as the first n \div 2 and then the rest.
RECURSIVE CrcShift(_, _)
CrcShift(w, n) ==
    IF n = 0 THEN w
    ELSE IF n = 1 THEN (IF w[1] = 1 THEN Xor32(Shr1(w), CrcPoly) ELSE Shr1(w))
    ELSE With(CrcShift(w, n \div 2), LAMBDA m : CrcShift(m, n - (n \div 2)))

RECURSIVE CrcUpdate(_, _)
CrcUpdate(w, data) ==
    IF data = << >> THEN w
    ELSE With(CrcShift(Xor32(w, Word32(<< data[1], 0, 0, 0 >>)), 8),
              LAMBDA w2 : CrcUpdate(w2, Tail(data)))

crc32(data) == Xor32(CrcUpdate(AllOnes32, data), AllOnes32)

(***************************************************************************)
(* Names of compressions, levels and encryptions (zippy/constants.py).     *)
(***************************************************************************)
UNENCRYPTED == "Unencrypted"
ZIP_CRYPTO == "ZipCrypto"
STORED == "Stored"
DEFLATE == "Deflate"
DEFLATE64 == "Deflate64"
PKWARE_IMPLODING == "PKWARE Imploding"
BZIP == "BZIP2"
LZ77 == "LZ77"
ZSTANDART == "Zstandart"
XZ == "XZ"
FAST == "Fast"
NORMAL == "Normal"
MAXIMUM == "Maximum"

ZIP_COMPRESSION_FROM_STR ==
    [c \in {STORED, DEFLATE, DEFLATE64, PKWARE_IMPLODING, BZIP, LZ77, ZSTANDART, XZ} |->
        CASE c = STORED -> 0
          [] c = DEFLATE -> 8
          [] c = DEFLATE64 -> 9
          [] c = PKWARE_IMPLODING -> 10
          [] c = BZIP -> 12
          [] c = LZ77 -> 19
          [] c = ZSTANDART -> 93
          [] c = XZ -> 95]

\* The grave accent cannot be written inside a string literal; it is the one
\* character the model names instead of spelling.
GRAVE == "GRAVE"

ILLEGAL_CHARS ==
    {"#", "%", "&", "{", "}", "<", ">", "*", "?", "$",
     "!", "'", "\"", ":", "@", "+", GRAVE, "|", "="}

\* n >= INT32_MAX, INT32_MAX = 4294967295 = 65535 * 65536 + 65535, compared
\* by halves because the number itself does not fit a signed 32-bit integer.
GeINT32_MAX(n) ==
    \/ n \div 65536 > 65535
    \/ n \div 65536 = 65535 /\ n % 65536 >= 65535

\* The value INT32_MAX as 4 little-endian bytes (the legacy size fields of
\* a ZIP64 entry).
INT32_MAX_BYTES == << 255, 255, 255, 255 >>

(***************************************************************************)
(* Python dict: items in insertion order.                                  *)
(***************************************************************************)
DictKeys(d) == [i \in 1..Len(d) |-> d[i].k]

DictHas(d, key) == \E i \in 1..Len(d) : d[i].k = key

DictGet(d, key) == d[CHOOSE i \in 1..Len(d) : d[i].k = key].v

\* d[key] = val : replaces in place, or appends a new item.
DictSet(d, key, val) ==
    IF DictHas(d, key)
    THEN [i \in 1..Len(d) |-> IF d[i].k = key THEN [k |-> key, v |-> val] ELSE d[i]] \o << >>
    ELSE Append(d, [k |-> key, v |-> val])

\* d.pop(key) on a present key.
DictPop(d, key) == SelectSeq(d, LAMBDA it : it.k # key)

\* {k: v for k, v in sorted(d.items(), key=lambda item: item[0])}: the item
\* at place r is the one that has r - 1 keys below its own.
SortDict(d) ==
    With([i \in 1..Len(d) |-> Cardinality({ j \in 1..Len(d) : StrLess(d[j].k, d[i].k) }) + 1] \o << >>,
         LAMBDA rank : [r \in 1..Len(d) |-> d[CHOOSE i \in 1..Len(d) : rank[i] = r]] \o << >>)

(***************************************************************************)
(* Record serialisation (zippy/zipfile/_zipfile.py).                       *)
(***************************************************************************)
\* int(bit_flag[::-1], 2).to_bytes(2, 'little'): bit_flag[i] is bit i.
BitFlagBytes(bit_flag) == ToBytes(BitsToNat(bit_flag), 2)

\* A size field written with to_bytes(4, 'little').  The field holds a number
\* below 2^31, or INT32_MAX = 0xFFFFFFFF, which the model writes as -1.
SizeBytes(sz) == IF sz = -1 THEN INT32_MAX_BYTES ELSE ToBytes(sz, 4)

FileRaw_encode(f, enc) ==
    ToBytes(f.version_needed_to_exctract, 2)
    \o BitFlagBytes(f.bit_flag)
    \o ToBytes(f.compression_method, 2)
    \o f.last_mod_time
    \o f.last_mod_date
    \o WordBytes(f.crc)
    \o SizeBytes(f.compressed_size)
    \o SizeBytes(f.uncompressed_size)
    \o ToBytes(f.filename_length, 2)
    \o ToBytes(f.extra_field_length, 2)
    \o EncodeStr(f.filename)
    \o f.extra_field
    \o f.contents

CDHeader_encode(h, enc) ==
    ToBytes(h.version_made_by, 1)
    \o ToBytes(h.platform, 1)
    \o ToBytes(h.version_needed_to_exctract, 2)
    \o BitFlagBytes(h.bit_flag)
    \o ToBytes(h.compression_method, 2)
    \o h.last_mod_time
    \o h.last_mod_date
    \o WordBytes(h.crc)
    \o SizeBytes(h.compressed_size)
    \o SizeBytes(h.uncompressed_size)
    \o ToBytes(h.filename_length, 2)
    \o ToBytes(h.extra_field_length, 2)
    \o ToBytes(h.comment_length, 2)
    \o ToBytes(h.disk_number_start, 2)
    \o h.internal_file_attrs
    \o h.external_file_attrs
    \o ToBytes(h.local_header_relative_offset, 4)
    \o EncodeStr(h.filename)
    \o h.extra_field
    \o EncodeStr(h.comment)

CDEnd_encode(e, enc) ==
    ToBytes(e.disk_num, 2)
    \o ToBytes(e.disk_num_CD, 2)
    \o ToBytes(e.total_entries, 2)
    \o ToBytes(e.total_CD_entries, 2)
    \o ToBytes(e.sizeof_CD, 4)
    \o ToBytes(e.offset, 4)
    \o ToBytes(e.comment_length, 2)
    \o EncodeStr(e.comment)

(***************************************************************************)
(* The environment: the wall clock, the host platform and the files on     *)
(* disk that add_file reads.                                               *)
(***************************************************************************)
\* datetime.now() at the time of a create_file call.
Now == [year |-> 2024, month |-> 5, day |-> 17, hour |-> 10, minute |-> 30, second |-> 12]

\* The fields do not overlap for a valid datetime, so | is +.
DosTime(dt) ==
    (dt.year - 1980) * 33554432 + dt.month * 2097152 + dt.day * 65536
    + dt.hour * 2048 + dt.minute * 32 + dt.second \div 2

Platforms == {"Linux"}

\* The files on disk: path.exists, path.isdir, the bytes read, the modification
\* time as datetime.fromtimestamp(getmtime, UTC) breaks it down, os.stat, and
\* the three Windows timestamps as convert() renders them (100 ns units since
\* 1601, 8 bytes little-endian; the numbers exceed 32 bits).
DiskPaths == {<< "f" >>, << "z" >>, << "x" >>}

\* A folder on disk that holds 36 files and no folder, the least number of
\* files add_folder hands to its pool: the names are the pairs of six
\* letters, in the order Path.iterdir yields them.
TreeRoot == << "S" >>

TreeLetters == << "a", "b", "c", "f", "x", "z" >>

TreeNames ==
    [i \in 1..(Len(TreeLetters) * Len(TreeLetters)) |->
        << TreeLetters[((i - 1) \div Len(TreeLetters)) + 1],
           TreeLetters[((i - 1) % Len(TreeLetters)) + 1] >>]

TreePaths == { TreeRoot \o << FS >> \o TreeNames[i] : i \in 1..Len(TreeNames) }

Disk(fd) ==
    CASE fd = << "f" >> \/ fd \in TreePaths ->
                           [exists |-> TRUE, isdir |-> FALSE, data |-> << 76, 78 >>,
                            mtime |-> [year |-> 2023, month |-> 3, day |-> 9, hour |-> 8,
                                       minute |-> 15, second |-> 40],
                            st_mtime |-> 1678349740, st_atime |-> 1678349741,
                            ntfs_mtime |-> << 0, 30, 220, 85, 95, 82, 217, 1 >>,
                            ntfs_atime |-> << 128, 180, 116, 86, 95, 82, 217, 1 >>,
                            ntfs_ctime |-> << 128, 135, 67, 85, 95, 82, 217, 1 >>,
                            st_uid |-> 1000, st_gid |-> 100, st_mode |-> 33188]
      [] fd = << "z" >> \/ fd = TreeRoot ->
                           [exists |-> TRUE, isdir |-> TRUE, data |-> << >>,
                            mtime |-> [year |-> 2023, month |-> 3, day |-> 9, hour |-> 8,
                                       minute |-> 15, second |-> 40],
                            st_mtime |-> 1678349740, st_atime |-> 1678349741,
                            ntfs_mtime |-> << 0, 30, 220, 85, 95, 82, 217, 1 >>,
                            ntfs_atime |-> << 128, 180, 116, 86, 95, 82, 217, 1 >>,
                            ntfs_ctime |-> << 128, 135, 67, 85, 95, 82, 217, 1 >>,
                            st_uid |-> 1000, st_gid |-> 100, st_mode |-> 16877]
      [] OTHER -> [exists |-> FALSE]

(***************************************************************************)
(* Payload helpers of create_file.                                         *)
(***************************************************************************)
\* bytes.decode('utf-8') succeeds.
RECURSIVE Utf8Valid(_)
Utf8Valid(bs) ==
    LET Cont(i) == i <= Len(bs) /\ bs[i] >= 128 /\ bs[i] <= 191
        Rest(n) == Utf8Valid(SubSeq(bs, n + 1, Len(bs)))
    IN  IF bs = << >> THEN TRUE
        ELSE IF bs[1] < 128 THEN Rest(1)
        ELSE IF bs[1] >= 194 /\ bs[1] <= 223 THEN Cont(2) /\ Rest(2)
        ELSE IF bs[1] >= 224 /\ bs[1] <= 239
             THEN /\ Cont(2) /\ Cont(3)
                  /\ (bs[1] = 224 => bs[2] >= 160)
                  /\ (bs[1] = 237 => bs[2] <= 159)
                  /\ Rest(3)
        ELSE IF bs[1] >= 240 /\ bs[1] <= 244
             THEN /\ Cont(2) /\ Cont(3) /\ Cont(4)
                  /\ (bs[1] = 240 => bs[2] >= 144)
                  /\ (bs[1] = 244 => bs[2] <= 143)
                  /\ Rest(4)
        ELSE FALSE

\* The external codecs.  An encoder is modelled as framing the input with a
\* byte that names the codec; its decoder accepts exactly that frame.
CodecTag(name) ==
    CASE name = "deflate" -> 201
      [] name = "bz2" -> 202
      [] name = "zstandard" -> 203
      [] name = "xz" -> 204
      [] name = "pwexplode" -> 205
      [] name = "LZ77" -> 206

CodecCompress(name, data) == [ok |-> TRUE, data |-> << CodecTag(name) >> \o data]

CodecDecompress(name, data) ==
    IF data # << >> /\ data[1] = CodecTag(name)
    THEN [ok |-> TRUE, data |-> Tail(data)]
    ELSE [ok |-> FALSE, data |-> << >>]

\* compress(method, level, contents) of _zip_algorythms.py: the result, or the
\* exception it raises.
compress(method, level, contents) ==
    IF method \in {8, 9}
    THEN IF level \in {FAST, NORMAL, MAXIMUM}
         THEN [exc |-> "none", data |-> CodecCompress("deflate", contents).data]
         ELSE [exc |-> "ValueError", data |-> << >>]
    ELSE IF method = 12
    THEN [exc |-> "none", data |-> CodecCompress("bz2", contents).data]
    ELSE IF method = 93
    THEN LET r == CodecDecompress("zstandard", contents)
         IN  IF r.ok THEN [exc |-> "none", data |-> r.data]
                     ELSE [exc |-> "CodecError", data |-> << >>]
    ELSE IF method = 95
    THEN LET r == CodecDecompress("xz", contents)
         IN  IF r.ok THEN [exc |-> "none", data |-> r.data]
                     ELSE [exc |-> "CodecError", data |-> << >>]
    ELSE [exc |-> "none", data |-> contents]

(***************************************************************************)
(* ZipCrypto (zippy/zipfile/utils/ZipEncrypt.py).  The three keys are      *)
(* 32-bit words.                                                           *)
(***************************************************************************)
\* generate_crc_table()[i]
crctable(i) == CrcShift(Word32(<< i, 0, 0, 0 >>), 8)

\* ZipDecrypter.crc32(ch, crc)
ZipDecrypter_crc32(ch, crc) ==
    LET idx == BitsToNat([i \in 1..8 |-> (crc[i] + BitsOfByte(ch)[i]) % 2])
        shifted == SubSeq(crc, 9, 32) \o << 0, 0, 0, 0, 0, 0, 0, 0 >>
    IN  Xor32(shifted, crctable(idx))

\* (a + n) & 0xFFFFFFFF on 4 little-endian bytes, 0 <= n <= 255.
AddMod32(a, n) ==
    LET s1 == a[1] + n
        s2 == a[2] + s1 \div 256
        s3 == a[3] + s2 \div 256
        s4 == a[4] + s3 \div 256
    IN  << s1 % 256, s2 % 256, s3 % 256, s4 % 256 >>

\* (a * b) & 0xFFFFFFFF on 4 little-endian bytes.
MulMod32(a, b) ==
    LET c1 == a[1] * b[1]
        c2 == a[1] * b[2] + a[2] * b[1] + c1 \div 256
        c3 == a[1] * b[3] + a[2] * b[2] + a[3] * b[1] + c2 \div 256
        c4 == a[1] * b[4] + a[2] * b[3] + a[3] * b[2] + a[4] * b[1] + c3 \div 256
    IN  << c1 % 256, c2 % 256, c3 % 256, c4 % 256 >>

\* 134775813 = 0x08088405
KeyMultiplier == << 5, 132, 8, 8 >>

\* ZipDecrypter.update_keys(c)
update_keys(keys, c) ==
    LET Key2(k0, k1) ==
            [key0 |-> k0, key1 |-> Word32(k1), key2 |-> ZipDecrypter_crc32(k1[4], keys.key2)]
        Key1(k0) ==
            With(AddMod32(MulMod32(AddMod32(WordBytes(keys.key1), WordBytes(k0)[1]),
                                   KeyMultiplier), 1),
                 LAMBDA k1 : Key2(k0, k1))
    IN  With(ZipDecrypter_crc32(c, keys.key0), Key1)

RECURSIVE FeedPassword(_, _)
FeedPassword(keys, codes) ==
    IF codes = << >> THEN keys ELSE FeedPassword(update_keys(keys, codes[1]), Tail(codes))

\* ZipDecrypter.__init__(pwd): 305419896, 591751049, 878082192, then the password.
ZipDecrypter_init(password) ==
    FeedPassword([key0 |-> Word32(<< 120, 86, 52, 18 >>),
                  key1 |-> Word32(<< 137, 103, 69, 35 >>),
                  key2 |-> Word32(<< 144, 120, 86, 52 >>)],
                 EncodeStr(password))

\* ((k * (k ^ 1)) >> 8) & 255 with k = key2 | 2: only the low 16 bits of k
\* reach bits 8..15 of the product.
StreamByte(keys) ==
    LET b == WordBytes(keys.key2)
        lo == IF (b[1] \div 2) % 2 = 1 THEN b[1] ELSE b[1] + 2
        lox == IF lo % 2 = 1 THEN lo - 1 ELSE lo + 1
        hi == b[2]
    IN  ((lo * lox + 256 * ((lo * hi + hi * lox) % 256)) \div 256) % 256

XorByte(a, b) == BitsToNat([i \in 1..8 |-> (BitsOfByte(a)[i] + BitsOfByte(b)[i]) % 2])

\* ZipDecrypter.__call__(c): the byte returned and the keys it leaves.
ZipDecrypter_call(keys, c) ==
    With(XorByte(c, StreamByte(keys)),
         LAMBDA d : [c |-> d, keys |-> update_keys(keys, d)])

\* ZipEncrypter.__call__ with the keys updated by the byte it returns.
ZipEncrypter_call_PostXor(keys, c) ==
    With(XorByte(c, StreamByte(keys)),
         LAMBDA e : [c |-> e, keys |-> update_keys(keys, e)])

\* ZipEncrypter.__call__(c): the byte returned and the keys it leaves.
ZipEncrypter_call(keys, c) ==
    [c |-> XorByte(c, StreamByte(keys)), keys |-> update_keys(keys, c)]

\* map(ZipDecrypter(pwd), contents), from the given key state.
\* The bytes lo..hi of contents through the calls, in their order: the
\* bytes returned and the keys left.  The range is taken in two halves, the
\* second from the keys the first leaves.
RECURSIVE DecryptRange(_, _, _, _)
DecryptRange(keys, contents, lo, hi) ==
    IF lo > hi THEN [out |-> << >>, keys |-> keys]
    ELSE IF lo = hi
    THEN With(ZipDecrypter_call(keys, contents[lo]), LAMBDA r : [out |-> << r.c >>, keys |-> r.keys])
    ELSE With(DecryptRange(keys, contents, lo, (lo + hi) \div 2), LAMBDA l :
         With(DecryptRange(l.keys, contents, ((lo + hi) \div 2) + 1, hi), LAMBDA r :
              [out |-> l.out \o r.out, keys |-> r.keys]))

DecryptFrom(keys, contents) == DecryptRange(keys, contents, 1, Len(contents)).out

\* map(ZipEncrypter(pwd), contents), from the given key state.
\* The bytes lo..hi of contents through the calls, in their order: the
\* bytes returned and the keys left.  The range is taken in two halves, the
\* second from the keys the first leaves.
RECURSIVE EncryptRange(_, _, _, _)
EncryptRange(keys, contents, lo, hi) ==
    IF lo > hi THEN [out |-> << >>, keys |-> keys]
    ELSE IF lo = hi
    THEN With(ZipEncrypter_call(keys, contents[lo]), LAMBDA r : [out |-> << r.c >>, keys |-> r.keys])
    ELSE With(EncryptRange(keys, contents, lo, (lo + hi) \div 2), LAMBDA l :
         With(EncryptRange(l.keys, contents, ((lo + hi) \div 2) + 1, hi), LAMBDA r :
              [out |-> l.out \o r.out, keys |-> r.keys]))

EncryptFrom(keys, contents) == EncryptRange(keys, contents, 1, Len(contents)).out

(***************************************************************************)
(* The reader (zippy/zipfile/_zipfile.py, _zip_algorythms.py and           *)
(* ZipFile.open).  A stream is the byte sequence bs with a position p;     *)
(* read(n) returns bs[p:p+n], which is shorter than n at the end of the    *)
(* stream and empty after it.                                              *)
(***************************************************************************)
\* The characters of the model, and bytes.decode on one of their bytes.  A
\* byte outside the alphabet decodes to a character the writer never emits.
Alphabet == {"#", ".", "/", "L", "N", "S", "T", "\\", "a", "b", "c", "f", "x", "z"}

Chr(b) == IF \E c \in Alphabet : Ord(c) = b THEN CHOOSE c \in Alphabet : Ord(c) = b ELSE "?"

\* bytes.decode(encoding)
DecodeStr(bs, enc) ==
    IF Utf8Valid(bs) THEN [exc |-> "none", s |-> [i \in 1..Len(bs) |-> Chr(bs[i])]]
    ELSE [exc |-> "UnicodeDecodeError", s |-> << >>]

\* bs padded with zero bytes to n bytes: int.from_bytes reads a short field
\* as if its missing high bytes were zero.
PadTo(bs, n) == [i \in 1..n |-> IF i <= Len(bs) THEN bs[i] ELSE 0]

\* int.from_bytes(bs, 'little') of a size field: the number when it is below
\* 2^31, -1 for INT32_MAX = 0xFFFFFFFF, -2 for any other number from 2^31 up.
FromBytesN(bs) ==
    LET b == PadTo(bs, 8)
    IN  IF b[4] < 128 /\ \A i \in 5..8 : b[i] = 0 THEN FromBytes(SubSeq(b, 1, 4))
        ELSE IF SubSeq(b, 1, 4) = INT32_MAX_BYTES /\ \A i \in 5..8 : b[i] = 0 THEN -1
        ELSE -2

\* The position after read(n) at p; a count of 2^31 or more reads to the end.
Advance(bs, p, n) == IF n < 0 \/ p + n > Len(bs) THEN Len(bs) ELSE p + n

\* "".join(format(b, '0>8b')[::-1] for b in bs)
BitString(bs) == Concat([i \in 1..Len(bs) |-> BitsOfByte(bs[i])])

PK0304 == << 80, 75, 3, 4 >>
PK0102 == << 80, 75, 1, 2 >>
PK0506 == << 80, 75, 5, 6 >>
PK0708 == << 80, 75, 7, 8 >>

\* FileRaw.__init_raw__(file, encoding) with the stream at position p:
\* the exception raised, the record and the position reached.
FileRaw___init_raw__(bs, p, enc) ==
    LET R(i, j) == Slice(bs, p + i, p + j)
        Fail(e) == [exc |-> e, raw |-> << >>, pos |-> p]
        \* lines 31-43: the fixed part, 26 bytes
        head == [version |-> R(0, 2),
                 bit_flag |-> BitString(R(2, 4)),
                 compression_method |-> FromBytes(R(4, 6)),
                 last_mod_time |-> R(6, 8),
                 last_mod_date |-> R(8, 10),
                 crc |-> Word32(PadTo(R(10, 14), 4)),
                 compressed_size |-> FromBytesN(R(14, 18)),
                 uncompressed_size |-> FromBytesN(R(18, 22)),
                 filename_length |-> FromBytes(R(22, 24)),
                 extra_field_length |-> FromBytes(R(24, 26))]
        \* lines 46-48: the sizes of a zip64 record come from its extra field
        Sizes(h, extra_field) ==
            IF h.compressed_size = -1 /\ Slice(extra_field, 0, 2) = << 1, 0 >>
            THEN [uncompressed_size |-> FromBytesN(Slice(extra_field, 4, 12)),
                  compressed_size |-> FromBytesN(Slice(extra_field, 12, 20))]
            ELSE [uncompressed_size |-> h.uncompressed_size,
                  compressed_size |-> h.compressed_size]
        \* lines 51-57: the data descriptor read at p5, after its signature
        Descriptor(_s, p5) ==
            [crc |-> Word32(PadTo(_s, 4)),
             compressed_size |-> FromBytesN(Slice(bs, p5, p5 + 4)),
             uncompressed_size |-> FromBytesN(Slice(bs, p5 + 4, p5 + 8)),
             pos |-> Advance(bs, p5, 8)]
        Trailer(h, sz, p4) ==
            IF ~(Len(h.bit_flag) > 3 /\ h.bit_flag[4] = 1)
            THEN [crc |-> h.crc, compressed_size |-> sz.compressed_size,
                  uncompressed_size |-> sz.uncompressed_size, pos |-> p4]
            ELSE With(Slice(bs, p4, p4 + 4), LAMBDA _s :
                 IF _s = PK0708 THEN Descriptor(Slice(bs, p4 + 4, p4 + 8), Advance(bs, p4, 8))
                 ELSE Descriptor(_s, Advance(bs, p4, 4)))
        Made(h, filename, extra_field, contents, t) ==
            IF Len(h.version) < 2 THEN Fail("IndexError")
            ELSE IF h.version[2] # 0 THEN Fail("BadFile")
            ELSE IF filename.exc # "none" THEN Fail(filename.exc)
            ELSE IF Len(h.bit_flag) < 4 THEN Fail("IndexError")
            ELSE IF Len(h.bit_flag) < 14 THEN Fail("IndexError")
            ELSE IF h.bit_flag[14] = 1 THEN Fail("NotImplementedError")
            ELSE [exc |-> "none",
                  raw |-> [version_needed_to_exctract |-> h.version[1],
                           bit_flag |-> h.bit_flag,
                           compression_method |-> h.compression_method,
                           last_mod_time |-> h.last_mod_time,
                           last_mod_date |-> h.last_mod_date,
                           crc |-> t.crc,
                           compressed_size |-> t.compressed_size,
                           uncompressed_size |-> t.uncompressed_size,
                           filename_length |-> h.filename_length,
                           extra_field_length |-> h.extra_field_length,
                           filename |-> filename.s,
                           extra_field |-> extra_field,
                           contents |-> contents],
                  pos |-> t.pos]
        \* lines 44-49: the name from p1, the extra field from p2, the contents from p3
        Variable(h, p1) ==
            With(Advance(bs, p1, h.filename_length), LAMBDA p2 :
            With(Advance(bs, p2, h.extra_field_length), LAMBDA p3 :
            With(Slice(bs, p2, p3), LAMBDA extra_field :
            With(Sizes(h, extra_field), LAMBDA sz :
            With(Advance(bs, p3, sz.compressed_size), LAMBDA p4 :
            With(Trailer(h, sz, p4), LAMBDA t :
            With(DecodeStr(Slice(bs, p1, p2), enc), LAMBDA filename :
                Made(h, filename, extra_field, Slice(bs, p3, p4), t))))))))
    IN  With(head, LAMBDA h : Variable(h, Advance(bs, p, 26)))

\* decrypt with the check made on the 11th byte of the decrypted header.
decrypt_Byte11(bit_flag, v, crc, password, contents) ==
    LET Checked(decrypted_content, decryption_header) ==
            IF Len(decryption_header) < 2
            THEN [exc |-> "IndexError", method |-> "", data |-> << >>]
            ELSE IF decryption_header[Len(decryption_header) - 1] # WordBytes(crc)[4]
            THEN [exc |-> "WrongPassword", method |-> "", data |-> << >>]
            ELSE [exc |-> "none", method |-> ZIP_CRYPTO,
                  data |-> Slice(decrypted_content, 12, Len(decrypted_content))]
    IN  IF bit_flag[1] = 0
        THEN [exc |-> "none", method |-> UNENCRYPTED, data |-> contents]
        ELSE IF password.none \/ password.val = << >>
        THEN [exc |-> "WrongPassword", method |-> "", data |-> << >>]
        ELSE IF ~(v >= 20)
        THEN [exc |-> "BadFile", method |-> "", data |-> << >>]
        ELSE With(DecryptFrom(ZipDecrypter_init(password.val), contents),
                  LAMBDA decrypted_content :
                      Checked(decrypted_content, Slice(decrypted_content, 0, 12)))

\* decrypt(bit_flag, v, crc, pwd, contents) of _zip_algorythms.py
decrypt(bit_flag, v, crc, password, contents) ==
    LET Checked(decrypted_content, decryption_header) ==
            IF decryption_header = << >>
            THEN [exc |-> "IndexError", method |-> "", data |-> << >>]
            ELSE IF decryption_header[Len(decryption_header)] # WordBytes(crc)[4]
            THEN [exc |-> "WrongPassword", method |-> "", data |-> << >>]
            ELSE [exc |-> "none", method |-> ZIP_CRYPTO,
                  data |-> Slice(decrypted_content, 12, Len(decrypted_content))]
    IN  IF bit_flag[1] = 0
        THEN [exc |-> "none", method |-> UNENCRYPTED, data |-> contents]
        ELSE IF password.none \/ password.val = << >>
        THEN [exc |-> "WrongPassword", method |-> "", data |-> << >>]
        ELSE IF ~(v >= 20)
        THEN [exc |-> "BadFile", method |-> "", data |-> << >>]
        ELSE With(DecryptFrom(ZipDecrypter_init(password.val), contents),
                  LAMBDA decrypted_content :
                      Checked(decrypted_content, Slice(decrypted_content, 0, 12)))

\* decompress(compression_method, uncompressed_size, contents)
decompress(compression_method, uncompressed_size, contents) ==
    LET Out(name, r) ==
            IF r.ok THEN [exc |-> "none", method |-> name, data |-> r.data]
            ELSE [exc |-> "CodecError", method |-> "", data |-> << >>]
        Via(name, codec) == Out(name, CodecDecompress(codec, contents))
        Raise(e) == [exc |-> e, method |-> "", data |-> << >>]
    IN  IF compression_method = 0 THEN [exc |-> "none", method |-> STORED, data |-> contents]
        ELSE IF compression_method \in 1..5 THEN Raise("NotImplementedError")
        ELSE IF compression_method = 6 THEN Raise("Deprecated")
        ELSE IF compression_method = 7 THEN Raise("Deprecated")
        ELSE IF compression_method = 8 THEN Via(DEFLATE, "deflate")
        ELSE IF compression_method = 9 THEN Via(DEFLATE64, "deflate")
        ELSE IF compression_method = 10 THEN Via("PKWARE Data Compression Library Imploding", "pwexplode")
        ELSE IF compression_method = 11 THEN Raise("ReservedValue")
        ELSE IF compression_method = 12 THEN Via(BZIP, "bz2")
        ELSE IF compression_method = 13 THEN Raise("ReservedValue")
        ELSE IF compression_method = 14 THEN Raise("NotImplementedError")
        \* `from zippy.compressions import *` rebinds LZ77 to the string 'LZ77'
        ELSE IF compression_method = 19 THEN Raise("AttributeError")
        ELSE IF compression_method = 93 THEN Via(ZSTANDART, "zstandard")
        ELSE IF compression_method = 95 THEN Via(XZ, "xz")
        ELSE Raise("BadFile")

\* The number of days of a month, for datetime.date.
DaysInMonth(y, m) ==
    IF m \in {4, 6, 9, 11} THEN 30
    ELSE IF m = 2 THEN (IF y % 4 = 0 /\ (y % 100 # 0 \/ y % 400 = 0) THEN 29 ELSE 28)
    ELSE 31

\* The DOS time and date of a record as a datetime, or None (decode lines 86-97).
DecodeTime(last_mod_time, last_mod_date) ==
    LET t == FromBytes(last_mod_time)
        d == FromBytes(last_mod_date)
        hour == (t \div 2048) % 32
        minute == (t \div 32) % 64
        second == (t * 2) % 64
        year == d \div 512 + 1980
        month == (d \div 32) % 16
        day == d % 32
    IN  IF /\ hour <= 23 /\ minute <= 59 /\ second <= 59
           /\ month \in 1..12 /\ day >= 1 /\ day <= DaysInMonth(year, month)
        THEN [none |-> FALSE, year |-> year, month |-> month, day |-> day,
              hour |-> hour, minute |-> minute, second |-> second]
        ELSE [none |-> TRUE]

\* FileRaw.decode(pwd): the File, or the exception raised.
FileRaw_decode(raw, password) ==
    LET Fail(e) == [exc |-> e, file |-> << >>]
        level(method) ==
            IF method \in {DEFLATE, DEFLATE64}
            THEN (IF raw.bit_flag[2] = 0 /\ raw.bit_flag[3] = 0 THEN NORMAL
                  ELSE IF raw.bit_flag[2] = 1 /\ raw.bit_flag[3] = 0 THEN MAXIMUM
                  ELSE FAST)
            ELSE NORMAL
        Made(d, c) ==
            IF c.exc # "none" THEN Fail(c.exc)
            ELSE IF raw.filename = << >> THEN Fail("IndexError")
            ELSE [exc |-> "none",
                  file |-> [filename |-> raw.filename,
                            is_dir |-> raw.filename[Len(raw.filename)] = FS,
                            version_needed_to_exctract |-> raw.version_needed_to_exctract,
                            encryption_method |-> d.method,
                            compression_method |-> c.method,
                            compression_level |-> level(c.method),
                            last_mod_time |-> DecodeTime(raw.last_mod_time, raw.last_mod_date),
                            crc |-> raw.crc,
                            compressed_size |-> raw.compressed_size,
                            uncompressed_size |-> raw.uncompressed_size,
                            contents |-> c.data,
                            comment |-> << >>]]
        Decrypted(d) ==
            IF d.exc # "none" THEN Fail(d.exc)
            ELSE With(decompress(raw.compression_method, raw.uncompressed_size, d.data),
                      LAMBDA c : Made(d, c))
    IN  With(decrypt(raw.bit_flag, raw.version_needed_to_exctract, raw.crc, password,
                     raw.contents),
             Decrypted)

\* CDHeader.__init_raw__(file, encoding) with the stream at position p.
CDHeader___init_raw__(bs, p, enc) ==
    LET R(i, j) == Slice(bs, p + i, p + j)
        \* lines 172-188: the fixed part, 42 bytes
        head == [version_made_by |-> FromBytes(R(0, 1)),
                 platform |-> FromBytes(R(1, 2)),
                 version_needed_to_exctract |-> FromBytes(R(2, 4)),
                 bit_flag |-> BitString(R(4, 6)),
                 compression_method |-> FromBytes(R(6, 8)),
                 last_mod_time |-> R(8, 10),
                 last_mod_date |-> R(10, 12),
                 crc |-> Word32(PadTo(R(12, 16), 4)),
                 compressed_size |-> FromBytesN(R(16, 20)),
                 uncompressed_size |-> FromBytesN(R(20, 24)),
                 filename_length |-> FromBytes(R(24, 26)),
                 extra_field_length |-> FromBytes(R(26, 28)),
                 comment_length |-> FromBytes(R(28, 30)),
                 disk_number_start |-> FromBytes(R(30, 32)),
                 internal_file_attrs |-> R(32, 34),
                 external_file_attrs |-> R(34, 38),
                 local_header_relative_offset |-> FromBytesN(R(38, 42))]
        \* lines 191-193: the sizes of a zip64 record come from its extra field
        Sizes(h, extra_field) ==
            IF h.compressed_size = -1 /\ Slice(extra_field, 0, 2) = << 1, 0 >>
            THEN [uncompressed_size |-> FromBytesN(Slice(extra_field, 4, 12)),
                  compressed_size |-> FromBytesN(Slice(extra_field, 12, 20))]
            ELSE [uncompressed_size |-> h.uncompressed_size,
                  compressed_size |-> h.compressed_size]
        Made(h, filename, extra_field, sz, file_comment, p4) ==
            IF filename.exc # "none" THEN [exc |-> filename.exc, header |-> << >>, pos |-> p]
            ELSE IF file_comment.exc # "none"
            THEN [exc |-> file_comment.exc, header |-> << >>, pos |-> p]
            ELSE [exc |-> "none",
                  header |-> [h EXCEPT !.compressed_size = sz.compressed_size,
                                       !.uncompressed_size = sz.uncompressed_size]
                             @@ [filename |-> filename.s,
                                 extra_field |-> extra_field,
                                 comment |-> file_comment.s],
                  pos |-> p4]
        \* lines 189-194: the name from p1, the extra field from p2, the comment from p3
        Variable(h, p1) ==
            With(Advance(bs, p1, h.filename_length), LAMBDA p2 :
            With(Advance(bs, p2, h.extra_field_length), LAMBDA p3 :
            With(Slice(bs, p2, p3), LAMBDA extra_field :
            With(Advance(bs, p3, h.comment_length), LAMBDA p4 :
            With(DecodeStr(Slice(bs, p1, p2), enc), LAMBDA filename :
            With(DecodeStr(Slice(bs, p3, p4), enc), LAMBDA file_comment :
                Made(h, filename, extra_field, Sizes(h, extra_field), file_comment, p4)))))))
    IN  With(head, LAMBDA h : Variable(h, Advance(bs, p, 42)))

\* CDEnd.__init_raw__(file, encoding) with the stream at position p.
CDEnd___init_raw__(bs, p, enc) ==
    LET R(i, j) == Slice(bs, p + i, p + j)
        Made(comment_length, comment, p2) ==
            IF comment.exc # "none" THEN [exc |-> comment.exc, endof_cd |-> << >>, pos |-> p]
            ELSE [exc |-> "none",
                  endof_cd |-> [disk_num |-> FromBytes(R(0, 2)),
                                disk_num_CD |-> FromBytes(R(2, 4)),
                                total_entries |-> FromBytes(R(4, 6)),
                                total_CD_entries |-> FromBytes(R(6, 8)),
                                sizeof_CD |-> FromBytesN(R(8, 12)),
                                offset |-> FromBytesN(R(12, 16)),
                                comment_length |-> comment_length,
                                comment |-> comment.s],
                  pos |-> p2]
        Variable(comment_length, p1) ==
            With(Advance(bs, p1, comment_length), LAMBDA p2 :
                Made(comment_length, DecodeStr(Slice(bs, p1, p2), enc), p2))
    IN  With(FromBytes(R(16, 18)), LAMBDA comment_length :
            Variable(comment_length, Advance(bs, p, 18)))

\* Archive.__init__ under ZipFile.__init__ (_base_classes.py): the default
\* files[0].compression_method is evaluated before the search, so an empty
\* list raises IndexError.
ZipFile_init(fs, cds, endof_cd, enc) ==
    LET NonDir == { i \in 1..Len(fs) : ~fs[i].is_dir }
        Made(first) ==
            [status |-> "ok",
             files |-> fs,
             cd_headers |-> cds,
             endof_CD |-> endof_cd,
             comment |-> endof_cd.comment,
             total_entries |-> endof_cd.total_entries,
             encoding |-> enc,
             compression_method |->
                 IF \E i \in 1..Len(fs) :
                        ~fs[i].is_dir /\ fs[i].compression_method # first.compression_method
                 THEN "Mixed" ELSE first.compression_method,
             encryption_method |-> first.encryption_method]
    IN  IF fs = << >> THEN [status |-> "IndexError"]
        ELSE IF NonDir = {} THEN Made(fs[1])
        ELSE Made(fs[CHOOSE i \in NonDir : \A j \in NonDir : i <= j])

\* The CRC verification after the loop of open (lines 925-930): each file against its own
\* CRC and the CRC of the header at the same index; the comment comes from
\* the header.
RECURSIVE open_verify(_, _, _)
open_verify(fs, cds, i) ==
    IF i > Len(fs) \/ i > Len(cds) THEN [exc |-> "none", files |-> fs]
    ELSE With(crc32(fs[i].contents), LAMBDA crc :
             IF fs[i].crc # crc \/ cds[i].crc # crc THEN [exc |-> "BadFile", files |-> fs]
             ELSE open_verify([fs EXCEPT ![i].comment = cds[i].comment], cds, i + 1))

\* One pass of the while loop of open (lines 911-921): s holds the position
\* p in the stream and the files and headers read so far.  The outcome is
\* the same with the record read ("run"), or what open ends with.  A
\* signature that is none of the three is skipped; at the end of the stream
\* read(4) returns b'' for ever and the loop never exits ("hang").
open_step(bs, s, password, enc) ==
    LET Decoded(r, f) ==
            IF f.exc # "none" THEN [status |-> f.exc]
            ELSE [status |-> "run", p |-> r.pos, fs |-> Append(s.fs, f.file), cds |-> s.cds]
        Local(r) ==
            IF r.exc # "none" THEN [status |-> r.exc]
            ELSE With(FileRaw_decode(r.raw, password), LAMBDA f : Decoded(r, f))
        Central(r) ==
            IF r.exc # "none" THEN [status |-> r.exc]
            ELSE [status |-> "run", p |-> r.pos, fs |-> s.fs, cds |-> Append(s.cds, r.header)]
        Verified(r, v) ==
            IF v.exc # "none" THEN [status |-> v.exc]
            ELSE ZipFile_init(v.files, s.cds, r.endof_cd, enc)
        End(r) ==
            IF r.exc # "none" THEN [status |-> r.exc]
            ELSE With(open_verify(s.fs, s.cds, 1), LAMBDA v : Verified(r, v))
        Dispatch(signature, q) ==
            IF signature = PK0304 THEN With(FileRaw___init_raw__(bs, q, enc), Local)
            ELSE IF signature = PK0102 THEN With(CDHeader___init_raw__(bs, q, enc), Central)
            ELSE IF signature = PK0506 THEN With(CDEnd___init_raw__(bs, q, enc), End)
            ELSE IF signature = << >> THEN [status |-> "hang"]
            ELSE [status |-> "run", p |-> q, fs |-> s.fs, cds |-> s.cds]
    IN  Dispatch(Slice(bs, s.p, s.p + 4), Advance(bs, s.p, 4))

\* Up to n passes of the loop from s, stopping at the pass that ends open:
\* the first n \div 2 passes and then the rest.
RECURSIVE open_passes(_, _, _, _, _)
open_passes(bs, s, n, password, enc) ==
    IF s.status # "run" \/ n = 0 THEN s
    ELSE IF n = 1 THEN open_step(bs, s, password, enc)
    ELSE With(open_passes(bs, s, n \div 2, password, enc),
              LAMBDA m : open_passes(bs, m, n - (n \div 2), password, enc))

\* The while loop of open (lines 911-921) from position p.  A pass reads
\* four bytes of the stream or finds its end, so the loop is over within
\* Len(bs) \div 4 + 2 passes.
open_loop(bs, p, fs, cds, password, enc) ==
    open_passes(bs, [status |-> "run", p |-> p, fs |-> fs, cds |-> cds], (Len(bs) \div 4) + 2,
                password, enc)

\* ZipFile.open(f, pwd, encoding) on a stream holding bs: "ok" with the
\* archive, the name of the exception raised, or "hang".  The first record
\* (lines 905-909) must be a local file header or the end record; the rest
\* is read by the loop.
open(bs, password, enc) ==
    LET Decoded(r, f) ==
            IF f.exc # "none" THEN [status |-> f.exc]
            ELSE open_loop(bs, r.pos, << f.file >>, << >>, password, enc)
        Local(r) ==
            IF r.exc # "none" THEN [status |-> r.exc]
            ELSE With(FileRaw_decode(r.raw, password), LAMBDA f : Decoded(r, f))
        End(r) ==
            IF r.exc # "none" THEN [status |-> r.exc]
            ELSE ZipFile_init(<< >>, << >>, r.endof_cd, enc)
        Dispatch(signature) ==
            IF signature = PK0304 THEN With(FileRaw___init_raw__(bs, 4, enc), Local)
            ELSE IF signature = PK0506 THEN With(CDEnd___init_raw__(bs, 4, enc), End)
            ELSE [status |-> "BadFile"]
    IN  Dispatch(Slice(bs, 0, 4))

(***************************************************************************)
(* State.                                                                  *)
(*   files, cd_headers, sizeof_CD, offset, pwd, encoding, encryption:      *)
(*       the fields of NewZipFile (_files, _cd_headers, _sizeof_CD,        *)
(*       _offset, _pwd, _encoding, _encryption);                           *)
(*   platform: what platform.system() returns in this process;             *)
(*   out:      the archive file last written by save, as the sequence of   *)
(*             z.write calls, with the EndRecord save built;               *)
(*   opened:   the outcome of the last ZipFile.open;                       *)
(*   last:     the last call made on the archive, its arguments, the       *)
(*             exception it raised and the table it started from;          *)
(*   history:  the names of the methods called so far;                     *)
(*   nops:     the number of calls made so far.                            *)
(***************************************************************************)
VARIABLES files, cd_headers, sizeof_CD, offset, pwd, encoding, encryption,
          platform, out, opened, last, history, nops

vars == << files, cd_headers, sizeof_CD, offset, pwd, encoding, encryption,
          platform, out, opened, last, history, nops >>

\* The mutable part of a NewZipFile that the staging operations work on.
Self == [files |-> files, cd_headers |-> cd_headers, sizeof_CD |-> sizeof_CD]

NoPwd == [none |-> TRUE, val |-> << >>]

\* The 11 bytes the random source yields for an encryption header.
RandomHeader == << 7, 7, 7, 7, 7, 7, 7, 7, 7, 7, 7 >>

\* encrypt(data, pwd, crc): 11 random bytes and the high byte of the CRC,
\* followed by the payload, all passed through ZipEncrypter(pwd).
encrypt(data, password, crc) ==
    IF password.none
    THEN [exc |-> "TypeError", data |-> << >>]
    ELSE [exc |-> "none",
          data |-> EncryptFrom(ZipDecrypter_init(password.val),
                               RandomHeader \o << WordBytes(crc)[4] >> \o data)]

\* The checks every path-taking method starts with (create_file lines 70-79).
CheckNames(fn, fp) ==
    IF \E i \in 1..Len(fn) : fn[i] \in ILLEGAL_CHARS THEN "ValueError"
    ELSE IF fp[1] # DOT THEN "ValueError"
    ELSE IF \E i \in 1..Len(fp) : fp[i] = FS \/ fp[i] \in ILLEGAL_CHARS THEN "ValueError"
    ELSE "none"

\* fd of create_file as bytes (lines 84-93); fd is [t |-> "str" or "bytes", v |-> ...].
FdData(fd, enc) ==
    IF fd.t = "str" THEN [exc |-> "none", data |-> EncodeStr(fd.v)]
    ELSE IF fd.t = "bytes" THEN [exc |-> "none", data |-> fd.v]
    ELSE [exc |-> "TypeError", data |-> << >>]

PlatformCode(pl) ==
    CASE pl = "Windows" -> 0
      [] pl = "Linux" -> 3
      [] pl = "Darwin" -> 19
      [] OTHER -> -1

\* bit_flag = list('0000000000000000') with the given positions set to '1'.
BitFlag(ones) == [i \in 1..16 |-> IF (i - 1) \in ones THEN 1 ELSE 0]

\* InsertPair without the subtraction of the replaced header's length.
InsertPair_NoSubtract(a, file, cd_header, enc) ==
    [files |-> SortDict(DictSet(a.files, file.filename, file)),
     cd_headers |-> SortDict(DictSet(a.cd_headers, file.filename, cd_header)),
     sizeof_CD |-> a.sizeof_CD + Len(CDHeader_encode(cd_header, enc))]

\* The insertion both create_file (lines 211-221) and add_file (433-442) end with.
InsertPair(a, file, cd_header, enc) ==
    LET sub == IF DictHas(a.files, file.filename)
               THEN a.sizeof_CD - Len(CDHeader_encode(DictGet(a.cd_headers, file.filename), enc))
               ELSE a.sizeof_CD
    IN  [files |-> SortDict(DictSet(a.files, file.filename, file)),
         cd_headers |-> SortDict(DictSet(a.cd_headers, file.filename, cd_header)),
         sizeof_CD |-> sub + Len(CDHeader_encode(cd_header, enc))]

\* The records create_file (lines 102-209) and add_file (lines 262-431) build
\* from the final name fn and the payload data0; the two methods differ in
\* the timestamp, the UTF-8 bit, the central extra field and the attributes.
build_records(fn, data0, fp, compression, level, comment, time, b11, h_extra_field, external_file_attrs) ==
    LET usize0 == Len(data0)
        v1 == IF compression = DEFLATE \/ fp # << DOT >> \/ encryption = ZIP_CRYPTO THEN 20 ELSE 10
        v2 == IF compression = DEFLATE64 THEN 21 ELSE v1
        v3 == IF compression = PKWARE_IMPLODING THEN 25 ELSE v2
        v4 == IF GeINT32_MAX(usize0) THEN 45 ELSE v3
        v == IF compression = BZIP THEN 46 ELSE v4
        known == compression \in DOMAIN ZIP_COMPRESSION_FROM_STR
        compression_method == IF known THEN ZIP_COMPRESSION_FROM_STR[compression] ELSE -1
        b0 == IF encryption # UNENCRYPTED THEN {0} ELSE {}
        b12 == IF compression \in {DEFLATE, DEFLATE64}
               THEN IF level = FAST THEN {2} ELSE IF level = MAXIMUM THEN {1} ELSE {}
               ELSE {}
        Records(crc, comp, encr) ==
            LET bit_flag == BitFlag(b11 \cup b0 \cup b12)
                data == encr.data
                csize0 == Len(data)
                zip64 == GeINT32_MAX(csize0)
                f_extra_field == IF zip64
                                 THEN << 1, 0, 28, 0 >> \o ToBytes(usize0, 8) \o ToBytes(csize0, 8)
                                      \o << 0, 0, 0, 0, 0, 0, 0, 0 >> \o << 0, 0, 0, 0 >>
                                 ELSE << >>
                uncompressed_size == IF zip64 THEN -1 ELSE usize0
                compressed_size == IF zip64 THEN -1 ELSE csize0
                file == [version_needed_to_exctract |-> v,
                         bit_flag |-> bit_flag,
                         compression_method |-> compression_method,
                         last_mod_time |-> SubSeq(ToBytes(time, 4), 1, 2),
                         last_mod_date |-> SubSeq(ToBytes(time, 4), 3, 4),
                         crc |-> crc,
                         compressed_size |-> compressed_size,
                         uncompressed_size |-> uncompressed_size,
                         filename_length |-> Len(EncodeStr(fn)),
                         extra_field_length |-> Len(f_extra_field),
                         filename |-> fn,
                         extra_field |-> f_extra_field,
                         contents |-> data]
                cd_header == [version_made_by |-> 63,
                              platform |-> PlatformCode(platform),
                              version_needed_to_exctract |-> v,
                              bit_flag |-> bit_flag,
                              compression_method |-> compression_method,
                              last_mod_time |-> SubSeq(ToBytes(time, 4), 1, 2),
                              last_mod_date |-> SubSeq(ToBytes(time, 4), 3, 4),
                              crc |-> crc,
                              compressed_size |-> compressed_size,
                              uncompressed_size |-> uncompressed_size,
                              filename_length |-> Len(EncodeStr(fn)),
                              extra_field_length |-> Len(h_extra_field),
                              comment_length |-> Len(EncodeStr(comment)),
                              disk_number_start |-> 0,
                              internal_file_attrs |-> << 0, 0 >>,
                              external_file_attrs |-> external_file_attrs,
                              local_header_relative_offset |-> 0,
                              filename |-> fn,
                              extra_field |-> h_extra_field,
                              comment |-> comment]
            IN  IF ~known THEN [exc |-> "KeyError"]
                ELSE IF comp.exc # "none" THEN [exc |-> comp.exc]
                ELSE IF encr.exc # "none" THEN [exc |-> encr.exc]
                ELSE IF platform \notin {"Windows", "Linux", "Darwin"}
                THEN [exc |-> "NotImplementedError"]
                ELSE [exc |-> "none", file |-> file, cd_header |-> cd_header]
    IN  With(crc32(data0), LAMBDA crc :
        With(compress(compression_method, level, data0), LAMBDA comp :
        With(IF encryption # UNENCRYPTED THEN encrypt(comp.data, pwd, crc)
             ELSE [exc |-> "none", data |-> comp.data], LAMBDA encr :
        Records(crc, comp, encr))))

\* create_file from line 98 on: fn is the final archive name, data0 the payload.
create_file_stage(a, fn, data0, fp, compression, level, enc, comment) ==
    LET b11 == IF enc = "utf-8" /\ fn[Len(fn)] # FS /\ Utf8Valid(data0) THEN {11} ELSE {}
        external_attrs == IF fn[Len(fn)] = FS THEN 16 ELSE 32
    IN  With(build_records(fn, data0, fp, compression, level, comment, DosTime(Now), b11,
                           << >>, ToBytes(external_attrs, 4)),
             LAMBDA r :
                 IF r.exc # "none" THEN [a |-> a, exc |-> r.exc, key |-> << >>]
                 ELSE [a |-> InsertPair(a, r.file, r.cd_header, encoding), exc |-> "none",
                       key |-> fn])

\* get_structure(fp) (lines 628-643) on table a: the list, or FileNotFound.
get_structure(a, fp0) ==
    IF fp0[1] # DOT THEN [exc |-> "ValueError", ret |-> << >>]
    ELSE LET fp == IF fp0 # << DOT >>
                   THEN Replace(Slice(fp0, 2, Len(fp0)), BS, FS) \o << FS >>
                   ELSE fp0
             keys == DictKeys(a.files)
             hit(p) == IsSubstr(fp, Slice(p, 0, Len(fp))) \/ fp = << DOT >>
             sel == SelectSeq(keys, hit)
         IN  IF fp0 # << DOT >> /\ ~DictHas(a.files, fp)
             THEN [exc |-> "FileNotFound", ret |-> << >>]
             ELSE [exc |-> "none",
                   ret |-> [i \in 1..Len(sel) |-> << DOT, BS >> \o Replace(sel[i], FS, BS)]]

\* create_file(fn, fd, '.', ...): the call create_folder makes for each level.
create_file_root(a, fn, fd, compression, level, enc, comment) ==
    LET chk == CheckNames(fn, << DOT >>)
        d == FdData(fd, enc)
    IN  IF chk # "none" THEN [a |-> a, exc |-> chk, key |-> << >>]
        ELSE IF d.exc # "none" THEN [a |-> a, exc |-> d.exc, key |-> << >>]
        ELSE create_file_stage(a, fn, d.data, << DOT >>, compression, level, enc, comment)

\* The loop of create_folder (lines 503-509) over the levels i..Len(path).
RECURSIVE create_folder_loop(_, _, _, _)
create_folder_loop(a, path, i, enc) ==
    IF i > Len(path) THEN [a |-> a, exc |-> "none", key |-> << >>]
    ELSE With(create_file_root(a, Join(SubSeq(path, 1, i), << FS >>) \o << FS >>,
                               [t |-> "bytes", v |-> << >>], STORED, NORMAL, enc, << >>),
              LAMBDA r : IF r.exc # "none" THEN r
                         ELSE create_folder_loop(r.a, path, i + 1, enc))

\* create_folder(fn, fp, encoding) (lines 489-511).
create_folder(a, fn, fp0, enc) ==
    IF fn[1] # DOT /\ fp0[1] # DOT THEN [a |-> a, exc |-> "ValueError", ret |-> << >>]
    ELSE LET fp == IF fn[1] = DOT /\ fp0[1] = DOT
                   THEN fp0 \o << BS >> \o Slice(fn, 2, Len(fn))
                   ELSE fp0 \o << BS >> \o fn
             st == get_structure(a, << DOT >>).ret
             path == Tail(Split(fp, BS))
         IN  IF \E i \in 1..Len(st) : IsSubstr(fp \o << BS >>, st[i])
             THEN [a |-> a, exc |-> "none", ret |-> Slice(fp, 2, Len(fp)) \o << BS >>]
             ELSE With(create_folder_loop(a, path, 1, enc),
                       LAMBDA r : [a |-> r.a, exc |-> r.exc,
                                   ret |-> Join(path, << BS >>) \o << BS >>])

\* create_file(fn, fd, fp, compression, level, encoding, comment) (lines 58-221).
create_file(a, fn, fd, fp, compression, level, enc, comment) ==
    LET chk == CheckNames(fn, fp)
        d == FdData(fd, enc)
        \* lines 95-96: if fp != '.': fn = self.create_folder(fp).replace('\\', '/') + fn
        Staged(fold) ==
            IF fold.exc # "none" THEN [a |-> fold.a, exc |-> fold.exc, key |-> << >>]
            ELSE create_file_stage(fold.a, Replace(fold.ret, BS, FS) \o fn, d.data, fp,
                                   compression, level, enc, comment)
    IN  IF chk # "none" THEN [a |-> a, exc |-> chk, key |-> << >>]
        ELSE IF d.exc # "none" THEN [a |-> a, exc |-> d.exc, key |-> << >>]
        ELSE With(IF fp = << DOT >> THEN [a |-> a, exc |-> "none", ret |-> << >>]
                  ELSE create_folder(a, fp, << DOT >>, enc),
                  Staged)

\* bytes.isascii()
IsAscii(bs) == \A i \in 1..Len(bs) : bs[i] < 128

\* The central extra field and the external attributes add_file derives from
\* the source file (lines 348-389).
add_file_host(st) ==
    LET base == IF st.isdir THEN 16 ELSE 32
    IN  CASE platform = "Windows" ->
               [h_extra_field |-> << 10, 0, 32, 0, 0, 0, 0, 0, 1, 0, 24, 0 >>
                                  \o st.ntfs_mtime \o st.ntfs_atime \o st.ntfs_ctime,
                external_file_attrs |-> ToBytes(base, 4)]
          [] platform = "Linux" ->
               [h_extra_field |-> << 13, 0, 16, 0 >>
                                  \o ToBytes(st.st_atime, 4) \o ToBytes(st.st_mtime, 4)
                                  \o ToBytes(st.st_uid, 2) \o ToBytes(st.st_gid, 2)
                                  \o ToBytes(st.st_mode % 4096, 4),
                external_file_attrs |-> << base, 0 >> \o ToBytes(st.st_mode % 65536, 2)]
          [] OTHER ->
               [h_extra_field |-> << >>, external_file_attrs |-> ToBytes(base, 4)]

\* add_file(fn, fd, fp, compression, level, encoding, comment) (lines 223-442).
add_file(a, fn, fd, fp, compression, level, enc, comment) ==
    LET chk == CheckNames(fn, fp)
        st == Disk(fd)
        data0 == IF st.isdir THEN << >> ELSE st.data
        b11 == IF enc = "utf-8" /\ data0 # << >> /\ ~IsAscii(data0) /\ Utf8Valid(data0)
               THEN {11} ELSE {}
        Insert(a1, r, name) ==
            IF r.exc # "none" THEN [a |-> a1, exc |-> r.exc, key |-> << >>]
            ELSE [a |-> InsertPair(a1, r.file, r.cd_header, encoding), exc |-> "none",
                  key |-> name]
        \* lines 255-256: if fp != '.': fn = self.create_folder(fp).replace('\\', '/') + fn
        Staged(fold) ==
            IF fold.exc # "none" THEN [a |-> fold.a, exc |-> fold.exc, key |-> << >>]
            ELSE With(add_file_host(st), LAMBDA host :
                 With(build_records(Replace(fold.ret, BS, FS) \o fn, data0, fp, compression,
                                    level, comment, DosTime(st.mtime), b11,
                                    host.h_extra_field, host.external_file_attrs),
                      LAMBDA r : Insert(fold.a, r, Replace(fold.ret, BS, FS) \o fn)))
    IN  IF chk # "none" THEN [a |-> a, exc |-> chk, key |-> << >>]
        ELSE IF ~st.exists THEN [a |-> a, exc |-> "FileNotFound", key |-> << >>]
        ELSE With(IF fp = << DOT >> THEN [a |-> a, exc |-> "none", ret |-> << >>]
                  ELSE create_folder(a, fp, << DOT >>, enc),
                  Staged)

\* edit_file(fn, fd, fp) (lines 444-467).
edit_file(a, fn, fd, fp) ==
    LET chk == CheckNames(fn, fp)
        p == Replace(RemovePrefix(fp, << DOT, BS >>), BS, FS) \o << FS >> \o fn
    IN  IF chk # "none" THEN [a |-> a, exc |-> chk, key |-> << >>]
        ELSE IF DictHas(a.files, p)
        THEN create_file(a, fn, fd, fp, STORED, NORMAL, "utf-8", << >>)
        ELSE [a |-> a, exc |-> "FileNotFound", key |-> << >>]

\* remove_file(fn, fp) (lines 469-487).
remove_file(a, fn, fp) ==
    LET chk == CheckNames(fn, fp)
        p == Replace(RemovePrefix(fp \o << BS >> \o fn, << DOT, BS >>), BS, FS)
    IN  IF chk # "none" THEN [a |-> a, exc |-> chk]
        ELSE IF DictHas(a.files, p)
        THEN [a |-> [a EXCEPT !.files = DictPop(a.files, p)], exc |-> "none"]
        ELSE [a |-> a, exc |-> "FileNotFound"]

\* remove_folder(fn, fp) (lines 580-602): ret is the list of deleted keys.
remove_folder(a, fn, fp0) ==
    IF fp0[1] # DOT \/ (fn[1] # DOT /\ fp0[1] # DOT)
    THEN [a |-> a, exc |-> "ValueError", ret |-> << >>]
    ELSE LET fp == IF fn = << DOT >> THEN fp0
                   ELSE IF fn[1] = DOT /\ fp0[1] = DOT
                   THEN Replace(Slice(fn, 2, Len(fn)), BS, FS) \o << FS >>
                   ELSE fp0 \o << BS >> \o fn
             hit(p) == IsSubstr(fp, Slice(p, 0, Len(fp))) \/ fp = << DOT >>
             deletes == SelectSeq(DictKeys(a.files), hit)
             gone(it) == ~hit(it.k)
         IN  [a |-> [a EXCEPT !.files = SelectSeq(a.files, gone)],
              exc |-> "none", ret |-> deletes]

\* The loop of save over self._files.items() (lines 650-667), from item i on:
\* cds is self._cd_headers, fs is self._files, cur is current_offset and
\* w the z.write calls made so far.
RECURSIVE save_loop(_, _, _, _, _)
save_loop(fs, cds, i, cur, w) ==
    LET \* lines 654-661: a zip64 record gets the offset written into its extra field
        patch(file) == (file.compressed_size = -1 \/ GeINT32_MAX(file.compressed_size))
                       /\ Slice(file.extra_field, 0, 2) = << 1, 0 >>
        extra_field(file) == Slice(file.extra_field, 0, 20) \o ToBytes(cur, 8)
                             \o Slice(file.extra_field, 28, Len(file.extra_field))
        Patched(rec) == IF patch(fs[i].v) THEN [rec EXCEPT !.extra_field = extra_field(fs[i].v)]
                        ELSE rec
        Wrote(filename, file, header, file_bytes) ==
            save_loop([fs EXCEPT ![i] = [k |-> filename, v |-> file]],
                      DictSet(cds, filename, header), i + 1, cur + Len(file_bytes),
                      Append(w, [kind |-> "LFH", bytes |-> file_bytes]))
        Item(filename, file) ==
            Wrote(filename, file,
                    Patched([DictGet(cds, filename) EXCEPT !.local_header_relative_offset = cur]),
                    FileRaw_encode(file, encoding))
    IN  IF i > Len(fs)
        THEN [files |-> fs, cd_headers |-> cds, current_offset |-> cur, writes |-> w]
        ELSE With(Patched(fs[i].v), LAMBDA file : Item(fs[i].k, file))

\* save(fn, fp, comment) (lines 645-685): the new fields of self and the
\* z.write calls, in order.
save(a, comment) ==
    LET endof_cd(l) ==
            [disk_num |-> 0,
             disk_num_CD |-> 0,
             total_entries |-> Len(l.files),
             total_CD_entries |-> Len(l.cd_headers),
             sizeof_CD |-> a.sizeof_CD,
             offset |-> l.current_offset,
             comment_length |-> Len(EncodeStr(comment)),
             comment |-> comment]
        Ended(l, end) ==
            [files |-> l.files, cd_headers |-> l.cd_headers, offset |-> l.current_offset,
             endof_cd |-> end,
             writes |-> l.writes
                        \o [i \in 1..Len(l.cd_headers) |->
                               [kind |-> "CDH",
                                bytes |-> CDHeader_encode(l.cd_headers[i].v, encoding)]]
                        \o << [kind |-> "EOCD", bytes |-> CDEnd_encode(end, encoding)] >>]
    IN  With(save_loop(a.files, a.cd_headers, 1, 0, << >>),
             LAMBDA l : With(endof_cd(l), LAMBDA end : Ended(l, end)))

(***************************************************************************)
(* The calls the model makes: small sets of names, paths and payloads.     *)
(* In an action, r is the outcome of the call.                             *)
(***************************************************************************)
\* (fn, fp) of create_file: a plain name at the root and in a folder, a path
\* spelled inside the name, and a name that begins with "./".
CreateTargets ==
    { << << "c" >>, << DOT >> >>,
      << << "c" >>, << DOT, BS, "a" >> >>,
      << << "a", BS, "c" >>, << DOT >> >>,
      << << DOT, FS, "c" >>, << DOT >> >> }

\* (fn, fp) of add_file, edit_file and remove_file.
FileTargets ==
    { << << "c" >>, << DOT >> >>,
      << << "c" >>, << DOT, BS, "a" >> >> }

\* fn of create_folder: relative, from the root, and two levels deep.
CreateFolderNames == { << "a" >>, << DOT, BS, "a" >>, << "a", BS, "b" >> }

\* fn of remove_folder: relative, from the root, and the root itself.
RemoveFolderNames == { << "a" >>, << DOT, BS, "a" >>, << DOT >> }

\* fd of add_file: a file on disk and a path that does not exist.
AddSources == { << "f" >>, << "x" >> }

Texts == { << "T" >> }
NewTexts == { << "N" >> }
Comments == { << "L" >> }
SaveComments == { << "S" >> }

\* The record of a call: its name and arguments, the exception it raised
\* and the table it started from; the call is added to the history.
Call(op, fn, fp, arg, exc) ==
    /\ last' = [op |-> op, fn |-> fn, fp |-> fp, arg |-> arg, exc |-> exc, pre |-> Self]
    /\ history' = history \cup {op}
    /\ nops' = nops + 1

Commit(r) ==
    /\ files' = r.a.files
    /\ cd_headers' = r.a.cd_headers
    /\ sizeof_CD' = r.a.sizeof_CD

CanCall == nops < MaxOps

\* The bytes of the file save wrote.
Written == Concat([i \in 1..Len(out.writes) |-> out.writes[i].bytes])

\* ZipFile.new(): NewZipFile.__init__ (lines 42-55); nothing saved or opened.
Init ==
    /\ files = << >>
    /\ cd_headers = << >>
    /\ sizeof_CD = 0
    /\ offset = 0
    /\ pwd = NoPwd
    /\ encoding = "utf-8"
    /\ encryption = UNENCRYPTED
    /\ platform \in Platforms
    /\ out = [saved |-> FALSE, writes |-> << >>]
    /\ opened = [status |-> "none"]
    /\ last = [op |-> "new", fn |-> << >>, fp |-> << >>, arg |-> << >>, exc |-> "none",
               pre |-> [files |-> << >>, cd_headers |-> << >>, sizeof_CD |-> 0]]
    /\ history = {}
    /\ nops = 0

CreateFile ==
    /\ CanCall
    /\ \E t \in CreateTargets, text \in Texts, comment \in Comments :
           \E r \in { create_file(Self, t[1], [t |-> "str", v |-> text], t[2], STORED, NORMAL,
                                   "utf-8", comment) } :
               /\ Commit(r)
               /\ Call("create_file", t[1], t[2], [fd |-> text, comment |-> comment, key |-> r.key],
                       r.exc)
               /\ UNCHANGED << offset, pwd, encoding, encryption, platform, out, opened >>

AddFile ==
    /\ CanCall
    /\ \E t \in FileTargets, fd \in AddSources, comment \in Comments :
           \E r \in { add_file(Self, t[1], fd, t[2], STORED, NORMAL, "utf-8", comment) } :
               /\ Commit(r)
               /\ Call("add_file", t[1], t[2], [fd |-> fd, comment |-> comment, key |-> r.key],
                       r.exc)
               /\ UNCHANGED << offset, pwd, encoding, encryption, platform, out, opened >>

EditFile ==
    /\ CanCall
    /\ \E t \in FileTargets, text \in NewTexts :
           \E r \in { edit_file(Self, t[1], [t |-> "str", v |-> text], t[2]) } :
               /\ Commit(r)
               /\ Call("edit_file", t[1], t[2], [fd |-> text], r.exc)
               /\ UNCHANGED << offset, pwd, encoding, encryption, platform, out, opened >>

RemoveFile ==
    /\ CanCall
    /\ \E t \in FileTargets :
           \E r \in { remove_file(Self, t[1], t[2]) } :
               /\ Commit(r)
               /\ Call("remove_file", t[1], t[2], << >>, r.exc)
               /\ UNCHANGED << offset, pwd, encoding, encryption, platform, out, opened >>

CreateFolder ==
    /\ CanCall
    /\ \E fn \in CreateFolderNames :
           \E r \in { create_folder(Self, fn, << DOT >>, "utf-8") } :
               /\ Commit(r)
               /\ Call("create_folder", fn, << DOT >>, [ret |-> r.ret], r.exc)
               /\ UNCHANGED << offset, pwd, encoding, encryption, platform, out, opened >>

RemoveFolder ==
    /\ CanCall
    /\ \E fn \in RemoveFolderNames :
           \E r \in { remove_folder(Self, fn, << DOT >>) } :
               /\ Commit(r)
               /\ Call("remove_folder", fn, << DOT >>, [ret |-> r.ret], r.exc)
               /\ UNCHANGED << offset, pwd, encoding, encryption, platform, out, opened >>

\* save(fn, fp, comment): the file written replaces the one saved before.
Save ==
    /\ CanCall
    /\ \E comment \in SaveComments :
           \E r \in { save(Self, comment) } :
               /\ files' = r.files
               /\ cd_headers' = r.cd_headers
               /\ offset' = r.offset
               /\ out' = [saved |-> TRUE, writes |-> r.writes, endof_cd |-> r.endof_cd,
                          files |-> r.files, cd_headers |-> r.cd_headers, comment |-> comment]
               /\ Call("save", << >>, << >>, [comment |-> comment], "none")
               /\ UNCHANGED << sizeof_CD, pwd, encoding, encryption, platform, opened >>

\* ZipFile.open(f) on the file save wrote, with pwd = None and the default
\* encoding.
Open ==
    /\ CanCall
    /\ out.saved
    /\ \E r \in { open(Written, NoPwd, "utf-8") } :
           /\ opened' = r
           /\ Call("open", << >>, << >>, << >>, IF r.status = "ok" THEN "none" ELSE r.status)
    /\ UNCHANGED << files, cd_headers, sizeof_CD, offset, pwd, encoding, encryption,
                    platform, out >>

Next ==
    \/ CreateFile
    \/ AddFile
    \/ EditFile
    \/ RemoveFile
    \/ CreateFolder
    \/ RemoveFolder
    \/ Save
    \/ Open

Spec == Init /\ [][Next]_vars

(***************************************************************************)
(* The reader on archives written by other tools.  The file is a sequence  *)
(* of records, each with its 4-byte signature; ZipFile.open reads the      *)
(* bytes.  Here out.writes holds the records of the file on disk and       *)
(* opened the outcome of the last open of it.                              *)
(***************************************************************************)
\* The number of records of a file.
MaxRecords == 3

\* A local file header with its signature, with the given bits of the
\* general purpose flag set and the given compression method: version 2.0,
\* or a ZIP64 entry (legacy sizes 0xFFFFFFFF, sizes in the 0x0001 extra
\* record) of version 4.5.
StreamLocalAs(fn, contents, crc, zip64, bits, method) ==
    PK0304 \o FileRaw_encode(
        [version_needed_to_exctract |-> IF zip64 THEN 45 ELSE 20,
         bit_flag |-> BitFlag(bits),
         compression_method |-> method,
         last_mod_time |-> << 0, 0 >>,
         last_mod_date |-> << 33, 0 >>,
         crc |-> crc,
         compressed_size |-> IF zip64 THEN -1 ELSE Len(contents),
         uncompressed_size |-> IF zip64 THEN -1 ELSE Len(contents),
         filename_length |-> Len(EncodeStr(fn)),
         extra_field_length |-> IF zip64 THEN 20 ELSE 0,
         filename |-> fn,
         extra_field |-> IF zip64
                         THEN << 1, 0, 16, 0 >> \o ToBytes(Len(contents), 8)
                              \o ToBytes(Len(contents), 8)
                         ELSE << >>,
         contents |-> contents], "utf-8")

\* The same for a stored, unencrypted entry.
StreamLocal(fn, contents, crc, zip64) == StreamLocalAs(fn, contents, crc, zip64, {}, 0)

\* The central directory header of the same entry, with its signature.
StreamCentral(fn, contents, crc) ==
    PK0102 \o CDHeader_encode(
        [version_made_by |-> 20,
         platform |-> 3,
         version_needed_to_exctract |-> 20,
         bit_flag |-> BitFlag({}),
         compression_method |-> 0,
         last_mod_time |-> << 0, 0 >>,
         last_mod_date |-> << 33, 0 >>,
         crc |-> crc,
         compressed_size |-> Len(contents),
         uncompressed_size |-> Len(contents),
         filename_length |-> Len(EncodeStr(fn)),
         extra_field_length |-> 0,
         comment_length |-> 0,
         disk_number_start |-> 0,
         internal_file_attrs |-> << 0, 0 >>,
         external_file_attrs |-> << 32, 0, 0, 0 >>,
         local_header_relative_offset |-> 0,
         filename |-> fn,
         extra_field |-> << >>,
         comment |-> << >>], "utf-8")

\* An end of central directory record with its signature, for one entry.
StreamEnd(cd_size, cd_offset, comment) ==
    PK0506 \o CDEnd_encode(
        [disk_num |-> 0, disk_num_CD |-> 0, total_entries |-> 1, total_CD_entries |-> 1,
         sizeof_CD |-> cd_size, offset |-> cd_offset,
         comment_length |-> Len(EncodeStr(comment)), comment |-> comment], "utf-8")

\* A CRC-32 that is not the CRC-32 of the payload "T".
WrongCrc == Word32(<< 5, 0, 0, 0 >>)

\* The records a file is made of: two sound entries (one of them ZIP64),
\* an entry whose recorded CRC-32 is wrong, an entry marked encrypted, an
\* entry of compression method 1 (Shrunk), their central headers, the end
\* record of each sound entry (a central directory of 47 bytes that starts
\* after a local record of 32 or 52 bytes), four bytes that are no signature
\* and a cut-off signature.
StreamRecords ==
    { [kind |-> "LFH", name |-> "c", bytes |-> StreamLocal(<< "c" >>, << 84 >>, crc32(<< 84 >>), FALSE)],
      [kind |-> "LFH", name |-> "z", bytes |-> StreamLocal(<< "z" >>, << 84 >>, crc32(<< 84 >>), TRUE)],
      [kind |-> "LFH", name |-> "x", bytes |-> StreamLocal(<< "x" >>, << 84 >>, WrongCrc, FALSE)],
      [kind |-> "LFH", name |-> "c", bytes |-> StreamLocalAs(<< "c" >>, << 84 >>, crc32(<< 84 >>), FALSE, {0}, 0)],
      [kind |-> "LFH", name |-> "c", bytes |-> StreamLocalAs(<< "c" >>, << 84 >>, crc32(<< 84 >>), FALSE, {}, 1)],
      [kind |-> "CDH", name |-> "c", bytes |-> StreamCentral(<< "c" >>, << 84 >>, crc32(<< 84 >>))],
      [kind |-> "CDH", name |-> "z", bytes |-> StreamCentral(<< "z" >>, << 84 >>, crc32(<< 84 >>))],
      [kind |-> "CDH", name |-> "x", bytes |-> StreamCentral(<< "x" >>, << 84 >>, WrongCrc)],
      [kind |-> "EOCD", name |-> "c", bytes |-> StreamEnd(47, 32, << "S" >>)],
      [kind |-> "EOCD", name |-> "z", bytes |-> StreamEnd(47, 52, << "S" >>)],
      [kind |-> "junk", name |-> "", bytes |-> << 74, 85, 78, 75 >>],
      [kind |-> "cut", name |-> "", bytes |-> << 80, 75 >>] }

\* The settings of the archive that edit or set_password builds from the
\* opened one: ZipFile.new(pwd, encryption, encoding).
NewSettings ==
    { [pwd |-> NoPwd, encryption |-> UNENCRYPTED],
      [pwd |-> [none |-> FALSE, val |-> << "a" >>], encryption |-> ZIP_CRYPTO] }

\* An empty file on disk; nothing opened; pwd and encryption are the
\* settings a later edit or set_password is called with.
ReaderInit ==
    /\ files = << >>
    /\ cd_headers = << >>
    /\ sizeof_CD = 0
    /\ offset = 0
    /\ \E s \in NewSettings : pwd = s.pwd /\ encryption = s.encryption
    /\ encoding = "utf-8"
    /\ platform \in Platforms
    /\ out = [saved |-> TRUE, writes |-> << >>]
    /\ opened = [status |-> "none"]
    /\ last = [op |-> "none"]
    /\ history = {}
    /\ nops = 0

\* The tool that writes the file appends one record.
PutRecord ==
    /\ Len(out.writes) < MaxRecords
    /\ \E rec \in StreamRecords : out' = [out EXCEPT !.writes = Append(@, rec)]
    /\ opened' = [status |-> "none"]
    /\ last' = [op |-> "write"]
    /\ UNCHANGED << files, cd_headers, sizeof_CD, offset, pwd, encoding, encryption,
                    platform, history, nops >>

\* What the caller hands to ZipFile.open as f, by type: the path of the
\* file; a stream of a class derived from typing.BinaryIO, opened by the
\* caller on the file; the io.BufferedReader the built-in open returns, also
\* opened by the caller (not an instance of typing.BinaryIO); None.
PathArgs == {"int", "str", "bytes", "PathLike"}
SuppliedArgs == {"BinaryIO", "BufferedReader", "NoneType"}

\* The stream after the try statement of open (lines 904-928) is left with
\* the given status: the finally clause closes it when open made it; a read
\* loop that never ends never leaves the statement.
open_finally_OnReturnOnly(indirect, status) == indirect /\ status = "ok"

open_finally(indirect, status) == indirect /\ status # "hang"

\* ZipFile.open(f, pwd, encoding) with the stream it reads (lines 888-932):
\* res is the outcome, indirect whether open made the stream itself, and
\* closed whether the stream is closed when open is left.
open_f(f, bs, password, enc) ==
    IF f \in PathArgs
    THEN With(open(bs, password, enc), LAMBDA r :
              [res |-> r, indirect |-> TRUE, closed |-> open_finally(TRUE, r.status)])
    ELSE IF f # "BinaryIO"
    THEN [res |-> [status |-> "TypeError"], indirect |-> FALSE, closed |-> FALSE]
    ELSE With(open(bs, password, enc), LAMBDA r :
              [res |-> r, indirect |-> FALSE, closed |-> open_finally(FALSE, r.status)])

\* ZipFile.open(f) on the path of the file, with pwd = None and the default
\* encoding.
OpenStream ==
    /\ opened.status = "none"
    /\ out.writes # << >>
    /\ \E r \in { open_f("str", Written, NoPwd, "utf-8") } :
          /\ opened' = r.res
          /\ last' = [op |-> "open", f |-> "str", indirect |-> r.indirect, closed |-> r.closed]
    /\ UNCHANGED << files, cd_headers, sizeof_CD, offset, pwd, encoding, encryption,
                    platform, out, history, nops >>

\* ZipFile.open(f) on something that is not a path: a stream the caller
\* opened on the file, or None.
OpenSupplied ==
    /\ opened.status = "none"
    /\ out.writes # << >>
    /\ \E f \in SuppliedArgs :
       \E r \in { open_f(f, Written, NoPwd, "utf-8") } :
          /\ opened' = r.res
          /\ last' = [op |-> "open_supplied", f |-> f, indirect |-> r.indirect,
                      closed |-> r.closed]
    /\ UNCHANGED << files, cd_headers, sizeof_CD, offset, pwd, encoding, encryption,
                    platform, out, history, nops >>

\* The loop of ZipFile.edit (lines 945-946) from the i-th decoded file on:
\* create_file(file.filename, file.contents, '.', file.compression_method,
\* file.compression_level); an exception ends the loop.
RECURSIVE edit(_, _, _)
edit(fs, i, a) ==
    IF i > Len(fs) THEN [a |-> a, exc |-> "none"]
    ELSE With(create_file(a, fs[i].filename, [t |-> "bytes", v |-> fs[i].contents], << DOT >>,
                          fs[i].compression_method, fs[i].compression_level, "utf-8", << >>),
              LAMBDA r : IF r.exc # "none" THEN [a |-> r.a, exc |-> r.exc]
                         ELSE edit(fs, i + 1, r.a))

\* The loop of ZipFile.set_password (lines 952-953): add_file(file.filename,
\* file.contents, '.', ...), whose second argument is the path of a file on
\* disk (add_file lines 246-248, path.exists), here the decoded payload read as a path.
RECURSIVE set_password(_, _, _)
set_password(fs, i, a) ==
    IF i > Len(fs) THEN [a |-> a, exc |-> "none"]
    ELSE With(add_file(a, fs[i].filename, DecodeStr(fs[i].contents, "utf-8").s, << DOT >>,
                       fs[i].compression_method, fs[i].compression_level, "utf-8", << >>),
              LAMBDA r : IF r.exc # "none" THEN [a |-> r.a, exc |-> r.exc]
                         ELSE set_password(fs, i + 1, r.a))

\* The table of a NewZipFile right after construction (lines 42-55).
NewTable == [files |-> << >>, cd_headers |-> << >>, sizeof_CD |-> 0]

\* z = archive.edit(pwd, encryption): the table of z replaces the one held;
\* when the call raises there is no z and the table held stays.
EditArchive ==
    /\ opened.status = "ok"
    /\ \E r \in { edit(opened.files, 1, NewTable) } :
          /\ IF r.exc = "none"
             THEN /\ files' = r.a.files
                  /\ cd_headers' = r.a.cd_headers
                  /\ sizeof_CD' = r.a.sizeof_CD
             ELSE UNCHANGED << files, cd_headers, sizeof_CD >>
          /\ last' = [op |-> "edit", exc |-> r.exc, source |-> opened.files]
    /\ UNCHANGED << offset, pwd, encoding, encryption, platform, out, opened, history, nops >>

\* z = archive.set_password(pwd, encryption), pwd a string.
SetPassword ==
    /\ opened.status = "ok"
    /\ ~pwd.none
    /\ \E r \in { set_password(opened.files, 1, NewTable) } :
          /\ IF r.exc = "none"
             THEN /\ files' = r.a.files
                  /\ cd_headers' = r.a.cd_headers
                  /\ sizeof_CD' = r.a.sizeof_CD
             ELSE UNCHANGED << files, cd_headers, sizeof_CD >>
          /\ last' = [op |-> "set_password", exc |-> r.exc, source |-> opened.files]
    /\ UNCHANGED << offset, pwd, encoding, encryption, platform, out, opened, history, nops >>

ReaderNext ==
    \/ PutRecord
    \/ OpenStream
    \/ OpenSupplied
    \/ EditArchive
    \/ SetPassword

ReaderSpec == ReaderInit /\ [][ReaderNext]_vars

(***************************************************************************)
(* The algorithms on their own (_zip_algorythms.py, utils/ZipEncrypt.py):  *)
(* each action makes one call, or one step of a cipher pair, and records   *)
(* it in last with its arguments and its outcome.                          *)
(***************************************************************************)
\* The number of bytes passed through a cipher pair.
MaxBytes == 3

\* pwd of ZipEncrypter and ZipDecrypter.
CipherPasswords == { << >>, << "a" >>, << "a", "b" >> }

\* The bytes passed through the ciphers.
CipherBytes == { 0, 84, 255 }

\* Nothing called yet.
AlgInit ==
    /\ files = << >>
    /\ cd_headers = << >>
    /\ sizeof_CD = 0
    /\ offset = 0
    /\ pwd = NoPwd
    /\ encoding = "utf-8"
    /\ encryption = UNENCRYPTED
    /\ platform \in Platforms
    /\ out = [saved |-> FALSE, writes |-> << >>]
    /\ opened = [status |-> "none"]
    /\ last = [op |-> "none"]
    /\ history = {}
    /\ nops = 0

\* ZipEncrypter(p) and a fresh ZipDecrypter(p): x is the plaintext passed so
\* far, y what the encrypter returned and z what the decrypter returned.
CipherNew ==
    /\ \E p \in CipherPasswords :
           last' = [op |-> "cipher", password |-> p, x |-> << >>, y |-> << >>, z |-> << >>,
                    enc |-> ZipDecrypter_init(p), dec |-> ZipDecrypter_init(p)]
    /\ UNCHANGED << files, cd_headers, sizeof_CD, offset, pwd, encoding, encryption,
                    platform, out, opened, history, nops >>

\* One byte through the encrypter and its result through the decrypter.
CipherByte ==
    /\ last.op = "cipher"
    /\ Len(last.x) < MaxBytes
    /\ \E c \in CipherBytes :
           \E e \in { ZipEncrypter_call(last.enc, c) } :
               \E d \in { ZipDecrypter_call(last.dec, e.c) } :
                   last' = [last EXCEPT !.x = Append(@, c), !.y = Append(@, e.c),
                                        !.z = Append(@, d.c), !.enc = e.keys, !.dec = d.keys]
    /\ UNCHANGED << files, cd_headers, sizeof_CD, offset, pwd, encoding, encryption,
                    platform, out, opened, history, nops >>

\* The payload of the encrypted entries and the high byte of its CRC-32.
EntryPayload == << 84 >>
CheckByte == WordBytes(crc32(EntryPayload))[4]

\* The data area of an entry encrypted with password p: the 12-byte header
\* that ends with the check byte, then the payload, through ZipEncrypter(p).
Encrypted(p) == EncryptFrom(ZipDecrypter_init(p), RandomHeader \o << CheckByte >> \o EntryPayload)

\* (bit_flag, v, contents) of decrypt: entries encrypted with "a" of version
\* 2.0 and 1.0, unencrypted entries, and encrypted entries cut short.
DecryptEntries ==
    { [bit_flag |-> BitFlag({0}), v |-> 20, contents |-> Encrypted(<< "a" >>)],
      [bit_flag |-> BitFlag({0}), v |-> 10, contents |-> Encrypted(<< "a" >>)],
      [bit_flag |-> BitFlag({}), v |-> 20, contents |-> EntryPayload],
      [bit_flag |-> BitFlag({}), v |-> 10, contents |-> EntryPayload],
      [bit_flag |-> BitFlag({}), v |-> 20, contents |-> Encrypted(<< "a" >>)],
      [bit_flag |-> BitFlag({0}), v |-> 20, contents |-> Slice(Encrypted(<< "a" >>), 0, 3)],
      [bit_flag |-> BitFlag({0}), v |-> 20, contents |-> << >>] }

\* pwd of decrypt: None, the empty string, the password and another one.
DecryptPasswords ==
    { NoPwd, [none |-> FALSE, val |-> << >>], [none |-> FALSE, val |-> << "a" >>],
      [none |-> FALSE, val |-> << "b" >>] }

\* decrypt(bit_flag, v, crc, pwd, contents)
Decrypt ==
    /\ \E e \in DecryptEntries, pw \in DecryptPasswords :
           last' = [op |-> "decrypt", bit_flag |-> e.bit_flag, v |-> e.v,
                    crc |-> crc32(EntryPayload), password |-> pw, contents |-> e.contents,
                    r |-> decrypt(e.bit_flag, e.v, crc32(EntryPayload), pw, e.contents)]
    /\ UNCHANGED << files, cd_headers, sizeof_CD, offset, pwd, encoding, encryption,
                    platform, out, opened, history, nops >>

\* method of compress and decompress: the ids compress encodes.
CodecMethods == { 0, 8, 9, 12, 93, 95 }

\* contents of compress: empty, a letter, and byte strings that begin as the
\* output of the zstandard and xz encoders does.
CodecPayloads == { << >>, << 84 >>, << CodecTag("zstandard"), 84 >>, << CodecTag("xz"), 84 >> }

\* compress(method, level, contents), then decompress(method, len(contents),
\* ...) on what it returned.
Codec ==
    /\ \E m \in CodecMethods, level \in {FAST, NORMAL, MAXIMUM}, x \in CodecPayloads :
           \E c \in { compress(m, level, x) } :
               last' = [op |-> "codec", method |-> m, level |-> level, x |-> x, c |-> c,
                        d |-> IF c.exc = "none" THEN decompress(m, Len(x), c.data)
                              ELSE [exc |-> "not called", method |-> "", data |-> << >>]]
    /\ UNCHANGED << files, cd_headers, sizeof_CD, offset, pwd, encoding, encryption,
                    platform, out, opened, history, nops >>

\* compression_method of decompress: every id up to 21, the highest ids in
\* use and the largest 16-bit value.
MethodIds == (0..21) \cup { 93, 94, 95, 96, 97, 98, 99, 65535 }

\* decompress(compression_method, uncompressed_size, contents) on a payload
\* that every codec of the model decodes.
Decompress ==
    /\ \E id \in MethodIds, codec \in {"deflate", "bz2", "zstandard", "xz", "pwexplode"} :
           last' = [op |-> "decompress", id |-> id,
                    r |-> decompress(id, 1, CodecCompress(codec, << 84 >>).data)]
    /\ UNCHANGED << files, cd_headers, sizeof_CD, offset, pwd, encoding, encryption,
                    platform, out, opened, history, nops >>

\* Entries of 2^31 bytes and more.  Their lengths do not fit the integers
\* of the model, so here a length is its 8 little-endian bytes, as
\* to_bytes(8, 'little') writes it, and the payload itself is left out.
\* n >= INT32_MAX on such a length.
Size8Ge(n) == (\E i \in 5..8 : n[i] # 0) \/ SubSeq(n, 1, 4) = INT32_MAX_BYTES

\* n.to_bytes(4, 'little') on such a length.
Size8Field(n) ==
    IF \E i \in 5..8 : n[i] # 0 THEN [exc |-> "OverflowError", bytes |-> << >>]
    ELSE [exc |-> "none", bytes |-> SubSeq(n, 1, 4)]

\* The size-dependent fields of the two records create_file builds (lines
\* 103-152 and 169-209) for a payload of usize bytes whose compressed and
\* encrypted form has csize bytes.
stage_sizes(usize, csize) ==
    LET zip64 == Size8Ge(csize)
        v == IF Size8Ge(usize) THEN 45 ELSE IF encryption = ZIP_CRYPTO THEN 20 ELSE 10
        f_extra_field == IF zip64
                         THEN << 1, 0, 28, 0 >> \o usize \o csize
                              \o << 0, 0, 0, 0, 0, 0, 0, 0 >> \o << 0, 0, 0, 0 >>
                         ELSE << >>
        h_extra_field == << >>
        uncompressed_size == IF zip64 THEN INT32_MAX_BYTES \o << 0, 0, 0, 0 >> ELSE usize
        compressed_size == IF zip64 THEN INT32_MAX_BYTES \o << 0, 0, 0, 0 >> ELSE csize
    IN  [file |-> [version_needed_to_exctract |-> v,
                   compressed_size |-> compressed_size,
                   uncompressed_size |-> uncompressed_size,
                   extra_field_length |-> Len(f_extra_field),
                   extra_field |-> f_extra_field],
         cd_header |-> [version_needed_to_exctract |-> v,
                        compressed_size |-> compressed_size,
                        uncompressed_size |-> uncompressed_size,
                        extra_field_length |-> Len(h_extra_field),
                        extra_field |-> h_extra_field]]

\* FileRaw.encode and CDHeader.encode on the size-dependent fields of the
\* two records: the records themselves (file, cd_header) and their fields
\* as written (lfh, cdh).
encode_sizes(file, header) ==
    LET Written4(r, csize, usize) ==
            [compressed_size |-> csize.bytes,
             uncompressed_size |-> usize.bytes,
             extra_field_length |-> r.extra_field_length,
             extra_field |-> r.extra_field]
    IN  IF Size8Field(file.compressed_size).exc # "none"
           \/ Size8Field(file.uncompressed_size).exc # "none"
        THEN [exc |-> "OverflowError"]
        ELSE [exc |-> "none", file |-> file, cd_header |-> header,
              lfh |-> Written4(file, Size8Field(file.compressed_size),
                               Size8Field(file.uncompressed_size)),
              cdh |-> Written4(header, Size8Field(header.compressed_size),
                               Size8Field(header.uncompressed_size))]

\* save_sizes with a patch that also sets the length field of the central
\* header to the length of the patched extra field.
save_sizes_SetsLength(rec, current_offset) ==
    LET patch == Size8Ge(rec.file.compressed_size)
                 /\ Slice(rec.file.extra_field, 0, 2) = << 1, 0 >>
        extra_field == Slice(rec.file.extra_field, 0, 20) \o ToBytes(current_offset, 8)
                       \o Slice(rec.file.extra_field, 28, Len(rec.file.extra_field))
    IN  IF patch
        THEN encode_sizes([rec.file EXCEPT !.extra_field = extra_field],
                          [rec.cd_header EXCEPT !.extra_field = extra_field,
                                                !.extra_field_length = Len(extra_field)])
        ELSE encode_sizes(rec.file, rec.cd_header)

\* save on that entry at offset current_offset (lines 650-667): the patch of
\* the extra field of both records, then their encoding.
save_sizes(rec, current_offset) ==
    LET patch == Size8Ge(rec.file.compressed_size)
                 /\ Slice(rec.file.extra_field, 0, 2) = << 1, 0 >>
        extra_field == Slice(rec.file.extra_field, 0, 20) \o ToBytes(current_offset, 8)
                       \o Slice(rec.file.extra_field, 28, Len(rec.file.extra_field))
    IN  IF patch
        THEN encode_sizes([rec.file EXCEPT !.extra_field = extra_field],
                          [rec.cd_header EXCEPT !.extra_field = extra_field])
        ELSE encode_sizes(rec.file, rec.cd_header)

\* (len(payload), len(encoded payload)) of the large entries, around
\* INT32_MAX = 2^32 - 1: stored payloads of 1, 2^32 - 2, 2^32 - 1 and 2^32
\* bytes, payloads of 2^32 and 2^32 - 1 bytes that compress to one byte, and
\* a payload of 2^32 - 2 bytes that grows to 2^32 + 10 when encoded.
LargeSizes ==
    LET Len1 == << 1, 0, 0, 0, 0, 0, 0, 0 >>
        LenMaxLess1 == << 254, 255, 255, 255, 0, 0, 0, 0 >>
        LenMax == << 255, 255, 255, 255, 0, 0, 0, 0 >>
        LenMaxPlus1 == << 0, 0, 0, 0, 1, 0, 0, 0 >>
        LenMaxPlus11 == << 10, 0, 0, 0, 1, 0, 0, 0 >>
    IN  { << Len1, Len1 >>, << LenMaxLess1, LenMaxLess1 >>, << LenMax, LenMax >>,
          << LenMaxPlus1, LenMaxPlus1 >>, << LenMaxPlus1, Len1 >>, << LenMax, Len1 >>,
          << LenMaxLess1, LenMaxPlus11 >> }

\* create_file on a payload of such a length, then save with the entry at
\* one of two offsets.
StageLarge ==
    /\ \E sz \in LargeSizes, current_offset \in {0, 32} :
           last' = [op |-> "stage_large", usize |-> sz[1], csize |-> sz[2],
                    current_offset |-> current_offset,
                    r |-> save_sizes(stage_sizes(sz[1], sz[2]), current_offset)]
    /\ UNCHANGED << files, cd_headers, sizeof_CD, offset, pwd, encoding, encryption,
                    platform, out, opened, history, nops >>

AlgNext ==
    \/ CipherNew
    \/ CipherByte
    \/ Decrypt
    \/ Codec
    \/ Decompress
    \/ StageLarge

AlgSpec == AlgInit /\ [][AlgNext]_vars

(***************************************************************************)
(* Staging with every setting: the archive is made by ZipFile.new with or  *)
(* without ZipCrypto, and the calls take names with forbidden characters,  *)
(* every compression that has its own version or flag bits, every level,   *)
(* and payloads that are and are not UTF-8.                                *)
(***************************************************************************)
\* The number of staging calls made on one archive.
MaxStaged == 2

\* ZipFile.new(), or ZipFile.new("a", ZIP_CRYPTO): NewZipFile.__init__.
StageInit ==
    /\ files = << >>
    /\ cd_headers = << >>
    /\ sizeof_CD = 0
    /\ offset = 0
    /\ encoding = "utf-8"
    /\ \E s \in { [pwd |-> NoPwd, encryption |-> UNENCRYPTED],
                  [pwd |-> [none |-> FALSE, val |-> << "a" >>], encryption |-> ZIP_CRYPTO] } :
           pwd = s.pwd /\ encryption = s.encryption
    /\ platform \in Platforms
    /\ out = [saved |-> FALSE, writes |-> << >>]
    /\ opened = [status |-> "none"]
    /\ last = [op |-> "new", fn |-> << >>, fp |-> << >>, arg |-> << >>, exc |-> "none",
               pre |-> [files |-> << >>, cd_headers |-> << >>, sizeof_CD |-> 0]]
    /\ history = {}
    /\ nops = 0

\* (fn, fp) of the staging calls: at the root and in a folder; then names
\* with a forbidden character in fn and in the last folder of fp.
StageTargets ==
    { << << "c" >>, << DOT >> >>,
      << << "c" >>, << DOT, BS, "a" >> >>,
      << << "c", "#" >>, << DOT, BS, "a" >> >>,
      << << "c" >>, << DOT, BS, "a", BS, "b", "#" >> >> }

\* (compression, level) of the staging calls.
StageCodecs ==
    { << STORED, NORMAL >>, << DEFLATE, FAST >>, << DEFLATE, NORMAL >>,
      << DEFLATE, MAXIMUM >>, << DEFLATE64, FAST >>, << DEFLATE64, MAXIMUM >>,
      << PKWARE_IMPLODING, NORMAL >>, << BZIP, NORMAL >> }

\* create_file(fn, fd, fp, compression, level, encoding): every name, and a
\* name that ends with '/', with bytes that are UTF-8 (the letter T) or are
\* not and with another encoding; the two sound names with every codec.
StageCreate ==
    /\ nops < MaxStaged
    /\ \E x \in ((StageTargets \cup { << << "a", FS >>, << DOT >> >> })
                    \X { << STORED, NORMAL >> }
                    \X { << << 84 >>, "utf-8" >>, << << 255 >>, "utf-8" >>,
                         << << 84 >>, "latin-1" >> })
                \cup ({ t \in StageTargets : CheckNames(t[1], t[2]) = "none" }
                          \X StageCodecs \X { << << 84 >>, "utf-8" >> }) :
           \E r \in { create_file(Self, x[1][1], [t |-> "bytes", v |-> x[3][1]], x[1][2],
                                   x[2][1], x[2][2], x[3][2], << >>) } :
               /\ Commit(r)
               /\ Call("create_file", x[1][1], x[1][2],
                       [data |-> x[3][1], key |-> r.key, compression |-> x[2][1],
                        level |-> x[2][2], enc |-> x[3][2]], r.exc)
               /\ UNCHANGED << offset, pwd, encoding, encryption, platform, out, opened >>

\* add_file(fn, fd, fp, compression, level): every name with a file and with
\* a directory; the two sound names with every codec.
StageAdd ==
    /\ nops < MaxStaged
    /\ \E x \in (StageTargets \X { << STORED, NORMAL >> } \X { << "f" >>, << "z" >> })
                \cup ({ t \in StageTargets : CheckNames(t[1], t[2]) = "none" }
                          \X StageCodecs \X { << "f" >> }) :
           \E r \in { add_file(Self, x[1][1], x[3], x[1][2], x[2][1], x[2][2], "utf-8", << >>) } :
               /\ Commit(r)
               /\ Call("add_file", x[1][1], x[1][2],
                       [data |-> Disk(x[3]).data, key |-> r.key, compression |-> x[2][1],
                        level |-> x[2][2], enc |-> "utf-8"], r.exc)
               /\ UNCHANGED << offset, pwd, encoding, encryption, platform, out, opened >>

\* create_folder(fn): a folder, and folders with a forbidden character in
\* the first and in the second level.
StageFolder ==
    /\ nops < MaxStaged
    /\ \E fn \in { << "a" >>, << "a", "#" >>, << "a", BS, "b", "#" >> } :
           \E r \in { create_folder(Self, fn, << DOT >>, "utf-8") } :
               /\ Commit(r)
               /\ Call("create_folder", fn, << DOT >>, [ret |-> r.ret], r.exc)
               /\ UNCHANGED << offset, pwd, encoding, encryption, platform, out, opened >>

\* edit_file(fn, fd, fp)
StageEdit ==
    /\ nops < MaxStaged
    /\ \E t \in StageTargets :
           \E r \in { edit_file(Self, t[1], [t |-> "str", v |-> << "N" >>], t[2]) } :
               /\ Commit(r)
               /\ Call("edit_file", t[1], t[2], << >>, r.exc)
               /\ UNCHANGED << offset, pwd, encoding, encryption, platform, out, opened >>

\* remove_file(fn, fp)
StageRemove ==
    /\ nops < MaxStaged
    /\ \E t \in StageTargets :
           \E r \in { remove_file(Self, t[1], t[2]) } :
               /\ Commit(r)
               /\ Call("remove_file", t[1], t[2], << >>, r.exc)
               /\ UNCHANGED << offset, pwd, encoding, encryption, platform, out, opened >>

StageNext ==
    \/ StageCreate
    \/ StageAdd
    \/ StageFolder
    \/ StageEdit
    \/ StageRemove

StageSpec == StageInit /\ [][StageNext]_vars

(***************************************************************************)
(* Staging from another archive: add_from_archive opens the archive at a   *)
(* path and stages what it selects from the decoded entries.               *)
(***************************************************************************)
\* The number of add_from_archive calls of a behaviour.
MaxImports == 2

\* The entries of the archive on disk, in the order of its records: a
\* folder with a file and a sub-folder with a file, a file at the root, all
\* stored; the payloads are text ("T", "S") and one byte that is no UTF-8.
SourceEntries ==
    << [name |-> << "a", "/" >>, contents |-> << >>],
       [name |-> << "a", "/", "c" >>, contents |-> << 84 >>],
       [name |-> << "a", "/", "b", "/" >>, contents |-> << >>],
       [name |-> << "a", "/", "b", "/", "c" >>, contents |-> << 83 >>],
       [name |-> << "x" >>, contents |-> << 255 >> ] >>

\* The bytes of that archive: the local records, the central headers and an
\* end record.
SourceBytes ==
    Concat([i \in 1..Len(SourceEntries) |->
               StreamLocal(SourceEntries[i].name, SourceEntries[i].contents,
                           crc32(SourceEntries[i].contents), FALSE)])
    \o Concat([i \in 1..Len(SourceEntries) |->
                  StreamCentral(SourceEntries[i].name, SourceEntries[i].contents,
                                crc32(SourceEntries[i].contents))])
    \o StreamEnd(0, 0, << >>)

\* s[i:j] of Python for any integers i and j: a negative index counts from
\* the end, and both are clipped to the sequence.
PySlice(s, i, j) ==
    LET norm(k) == IF k < 0 THEN (IF Len(s) + k < 0 THEN 0 ELSE Len(s) + k)
                   ELSE IF k > Len(s) THEN Len(s) ELSE k
    IN  IF norm(j) <= norm(i) THEN << >> ELSE SubSeq(s, norm(i) + 1, norm(j))

\* File.peek(encoding) (_base_classes.py lines 59-84) with the default
\* ignore_overflow: the decoded text, or the bytes when they do not decode.
peek(file, enc) ==
    With(DecodeStr(file.contents, enc), LAMBDA d :
         IF d.exc = "none" THEN [t |-> "str", v |-> d.s]
         ELSE [t |-> "bytes", v |-> file.contents])

\* Archive.peek_all(encoding) (_base_classes.py lines 365-388) with the
\* default include_folders.
peek_all(fs, enc) ==
    [i \in 1..Len(fs) |->
        [file_path |-> << DOT, BS >> \o Replace(fs[i].filename, FS, BS),
         file_content |-> peek(fs[i], enc)]]

\* The test of add_from_archive on one entry (line 621).
add_from_archive_selects(fp, file_path) ==
    \/ /\ fp = PySlice(file_path, 0, Len(fp))
       /\ PySlice(fp, 2, Len(fp)) # PySlice(file_path, Len(file_path) - Len(fp) + 1, -1)
    \/ fp = << DOT >>

\* The loop of add_from_archive (lines 618-626) from the i-th entry on; an
\* exception ends it.
RECURSIVE add_from_archive_loop(_, _, _, _, _, _, _, _, _)
add_from_archive_loop(a, entries, i, fp, new_fp, compression, level, enc, comment) ==
    LET e == entries[i]
        Then(r) ==
            IF r.exc # "none" THEN [a |-> r.a, exc |-> r.exc]
            ELSE add_from_archive_loop(r.a, entries, i + 1, fp, new_fp, compression, level,
                                       enc, comment)
        file_name == With(Split(e.file_path, BS), LAMBDA parts : parts[Len(parts)])
    IN  IF i > Len(entries) THEN [a |-> a, exc |-> "none"]
        ELSE IF ~add_from_archive_selects(fp, e.file_path)
        THEN add_from_archive_loop(a, entries, i + 1, fp, new_fp, compression, level, enc,
                                   comment)
        ELSE IF e.file_path[Len(e.file_path)] = BS
        THEN With(create_folder(a, e.file_path, new_fp, enc), Then)
        ELSE With(create_file(a, file_name, e.file_content, new_fp, compression, level, enc,
                              comment),
                  Then)

\* add_from_archive(ap, fp, new_fp, pwd, compression, level, encoding,
\* comment) (lines 604-626) on the archive whose bytes are bs.
add_from_archive(a, bs, fp, new_fp, password, compression, level, enc, comment) ==
    With(open_f("str", bs, password, enc).res, LAMBDA z :
         IF z.status # "ok" THEN [a |-> a, exc |-> z.status]
         ELSE add_from_archive_loop(a, peek_all(z.files, enc), 1, fp, new_fp, compression,
                                    level, enc, comment))

\* A new unencrypted archive.
ImportInit ==
    /\ files = << >>
    /\ cd_headers = << >>
    /\ sizeof_CD = 0
    /\ offset = 0
    /\ encoding = "utf-8"
    /\ pwd = NoPwd
    /\ encryption = UNENCRYPTED
    /\ platform \in Platforms
    /\ out = [saved |-> TRUE, writes |-> << >>]
    /\ opened = [status |-> "none"]
    /\ last = [op |-> "new", fn |-> << >>, fp |-> << >>, arg |-> << >>, exc |-> "none",
               pre |-> [files |-> << >>, cd_headers |-> << >>, sizeof_CD |-> 0]]
    /\ history = {}
    /\ nops = 0

\* The sub-trees asked for: the root, a folder with and without its final
\* separator, a sub-folder, a file, and a folder named without the leading
\* '.\'.
ImportSubtrees ==
    { << DOT >>,
      << DOT, BS, "a", BS >>,
      << DOT, BS, "a" >>,
      << DOT, BS, "a", BS, "b", BS >>,
      << DOT, BS, "x" >>,
      << "a", BS >> }

\* The destinations: the root and a folder, with and without the leading
\* '.\'.
ImportPrefixes == { << DOT >>, << DOT, BS, "N" >>, << "N" >> }

\* z.add_from_archive(ap, fp, new_fp) with the default codec.
AddFromArchive ==
    /\ nops < MaxImports
    /\ \E fp \in ImportSubtrees, new_fp \in ImportPrefixes :
       \E r \in { add_from_archive(Self, SourceBytes, fp, new_fp, NoPwd, STORED, NORMAL,
                                   "utf-8", << >>) } :
          /\ files' = r.a.files
          /\ cd_headers' = r.a.cd_headers
          /\ sizeof_CD' = r.a.sizeof_CD
          /\ last' = [op |-> "add_from_archive", fn |-> fp, fp |-> new_fp, arg |-> << >>,
                      exc |-> r.exc, pre |-> Self]
    /\ nops' = nops + 1
    /\ UNCHANGED << offset, pwd, encoding, encryption, platform, out, opened, history >>

\* The least number of files add_folder hands to its pool (line 568).
MinParallel == 36

\* cpu_count() of the machine: the pool has that many worker processes.
CpuCounts == {1, 4, 16}

\* The number of consecutive tasks Pool.starmap puts in one batch: the
\* length of the list over four times the number of processes, rounded up.
\* A batch is pickled with one copy of the bound method, that is, of self.
chunksize(n, cpus) ==
    IF n % (cpus * 4) = 0 THEN n \div (cpus * 4) ELSE (n \div (cpus * 4)) + 1

\* get_all_files (lines 533-557) on a folder that holds files only: one
\* tuple of add_file arguments per file; __path is
\* str(Path(fp).joinpath(file.relative_to(_root)).parent), with '.\' put
\* before it unless it is '.'.  A POSIX path keeps '\' as a character of a
\* name; a Windows path drops a leading '.\'.
get_all_files(fd, fp, compression, level, comment) ==
    LET parent == IF platform = "Windows" THEN RemovePrefix(fp, << DOT, BS >>) ELSE fp
        path == IF parent = << DOT >> THEN << DOT >> ELSE << DOT, BS >> \o parent
    IN  IF fd = TreeRoot
        THEN [i \in 1..Len(TreeNames) |->
                 [fn |-> TreeNames[i], fd |-> TreeRoot \o << FS >> \o TreeNames[i],
                  fp |-> path, compression |-> compression, level |-> level,
                  encoding |-> encoding, comment |-> comment]]
        ELSE << >>

\* _mp_add_file(fn, fd, fp, compression, level, encoding, comment) (lines
\* 692-862) on the copy a of the archive that the worker holds: the key is
\* put together from fp without create_folder, the pair is set without
\* taking the size of a replaced header off and without sorting, and the
\* whole copy is returned.
_mp_add_file(a, fn, fd, fp, compression, level, enc, comment) ==
    LET st == Disk(fd)
        data0 == IF st.isdir THEN << >> ELSE st.data
        b11 == IF enc = "utf-8" /\ data0 # << >> /\ ~IsAscii(data0) /\ Utf8Valid(data0)
               THEN {11} ELSE {}
        name == IF fp # << DOT >>
                THEN Replace(Slice(fp, 2, Len(fp)) \o << BS >> \o fn, BS, FS)
                ELSE fn
        Insert(r) ==
            IF r.exc # "none" THEN [a |-> a, exc |-> r.exc]
            ELSE [a |-> [files |-> DictSet(a.files, name, r.file),
                         cd_headers |-> DictSet(a.cd_headers, name, r.cd_header),
                         sizeof_CD |-> a.sizeof_CD + Len(CDHeader_encode(r.cd_header, encoding))],
                  exc |-> "none"]
    IN  With(add_file_host(st), LAMBDA host :
        With(build_records(name, data0, fp, compression, level, comment, DosTime(st.mtime),
                           b11, host.h_extra_field, host.external_file_attrs),
             Insert))

\* The copy of the archive a worker holds after the tasks j..i of its batch.
RECURSIVE batch_copy(_, _, _, _)
batch_copy(a, tasks, j, i) ==
    IF j > i THEN a
    ELSE With(_mp_add_file(a, tasks[j].fn, tasks[j].fd, tasks[j].fp, tasks[j].compression,
                           tasks[j].level, tasks[j].encoding, tasks[j].comment),
              LAMBDA r : batch_copy(r.a, tasks, j + 1, i))

\* pool.starmap(self._mp_add_file, files) (line 570): the results in the
\* order of the tasks.  a0 is the archive as pickled with each batch and n
\* the size of a batch; the i-th result is the copy of its batch after the
\* tasks of the batch up to the i-th.
starmap(a0, tasks, n) ==
    [i \in 1..Len(tasks) |-> batch_copy(a0, tasks, i - ((i - 1) % n), i)]

\* The sum of result[2] over the results lo..hi, by halves.
RECURSIVE SumSizes(_, _, _)
SumSizes(results, lo, hi) ==
    IF lo > hi THEN 0
    ELSE IF lo = hi THEN results[lo].sizeof_CD
    ELSE SumSizes(results, lo, (lo + hi) \div 2) + SumSizes(results, ((lo + hi) \div 2) + 1, hi)

\* A dict after update(r[1]), update(r[2]), ... in turn (lines 571-572) and
\* the sort that follows (lines 574-575): a key holds the value of the last
\* result that has it, or its old value when none has; the keys are given
\* in their sorted order.
UpdateAll(d, rs) ==
    LET Keys == { d[i].k : i \in 1..Len(d) }
                \cup UNION { { rs[n][i].k : i \in 1..Len(rs[n]) } : n \in 1..Len(rs) }
        Has(k) == { n \in 1..Len(rs) : DictHas(rs[n], k) }
        Value(k) == IF Has(k) = {} THEN DictGet(d, k)
                    ELSE DictGet(rs[CHOOSE n \in Has(k) : \A m \in Has(k) : m <= n], k)
    IN  With([k \in Keys |-> Cardinality({ k2 \in Keys : StrLess(k2, k) }) + 1],
             LAMBDA rank :
                 [i \in 1..Cardinality(Keys) |->
                     With(CHOOSE k \in Keys : rank[k] = i,
                          LAMBDA k : [k |-> k, v |-> Value(k)])] \o << >>)

\* The loop over the results (lines 570-573).
add_folder_merge(a, results) ==
    [files |-> UpdateAll(a.files, [n \in 1..Len(results) |-> results[n].files]),
     cd_headers |-> UpdateAll(a.cd_headers, [n \in 1..Len(results) |-> results[n].cd_headers]),
     sizeof_CD |-> a.sizeof_CD + SumSizes(results, 1, Len(results))]

\* The loop of the other branch (lines 577-578) over the tuples lo..hi, in
\* their order: self.add_file(*file); an exception ends it.  r is the
\* archive with the outcome so far; the range is taken in two halves, the
\* second after the first.
RECURSIVE add_folder_each(_, _, _, _)
add_folder_each(r, tasks, lo, hi) ==
    IF r.exc # "none" \/ lo > hi THEN r
    ELSE IF lo = hi
    THEN With(add_file(r.a, tasks[lo].fn, tasks[lo].fd, tasks[lo].fp, tasks[lo].compression,
                       tasks[lo].level, tasks[lo].encoding, tasks[lo].comment),
              LAMBDA q : [a |-> q.a, exc |-> q.exc])
    ELSE With(add_folder_each(r, tasks, lo, (lo + hi) \div 2),
              LAMBDA m : add_folder_each(m, tasks, ((lo + hi) \div 2) + 1, hi))

\* add_folder(fd, fp, compression, level, comment, use_mp) (lines 513-578)
\* on a machine of cpus processors.
add_folder(a, fd, fp, compression, level, comment, use_mp, cpus) ==
    LET tasks == get_all_files(fd, fp, compression, level, comment)
        Merged(m) ==
            [a |-> [files |-> SortDict(m.files), cd_headers |-> SortDict(m.cd_headers),
                    sizeof_CD |-> m.sizeof_CD],
             exc |-> "none"]
    IN  IF ~Disk(fd).exists THEN [a |-> a, exc |-> "FileNotFound"]
        ELSE IF ~Disk(fd).isdir THEN [a |-> a, exc |-> "ValueError"]
        ELSE IF fp[1] # DOT THEN [a |-> a, exc |-> "ValueError"]
        ELSE IF Len(tasks) >= MinParallel /\ use_mp
        THEN With(add_folder_merge(a, starmap(a, tasks, chunksize(Len(tasks), cpus))),
                  Merged)
        ELSE add_folder_each([a |-> a, exc |-> "none"], tasks, 1, Len(tasks))

\* The folders on disk handed to add_folder: the folder of 36 files, an
\* empty folder, a file, and a path that does not exist.
FolderSources == { TreeRoot, << "z" >>, << "f" >>, << "x" >> }

\* The destinations of add_folder: the root, a folder, and a folder written
\* without the leading '.'.
FolderTargets == { << DOT >>, << DOT, BS, "N" >>, << "N" >> }

ImportNext == AddFromArchive

ImportSpec == ImportInit /\ [][ImportNext]_vars

\* How add_folder is called: with or without use_mp, and for the parallel
\* mode on a machine of each number of processors.
FolderModes ==
    { [use_mp |-> FALSE, cpus |-> 1] } \cup { [use_mp |-> TRUE, cpus |-> c] : c \in CpuCounts }

\* z.add_folder(fd, fp, use_mp = ...) with the default codec and comment;
\* a behaviour has one such call, after or before an add_from_archive.
AddFolder ==
    /\ nops < MaxImports
    /\ "add_folder" \notin history
    /\ \E fd \in FolderSources, fp \in FolderTargets, mode \in FolderModes :
       \E r \in { add_folder(Self, fd, fp, STORED, NORMAL, << >>, mode.use_mp, mode.cpus) } :
          /\ files' = r.a.files
          /\ cd_headers' = r.a.cd_headers
          /\ sizeof_CD' = r.a.sizeof_CD
          /\ last' = [op |-> "add_folder", fn |-> fd, fp |-> fp, arg |-> mode, exc |-> r.exc,
                      pre |-> Self]
    /\ nops' = nops + 1
    /\ history' = history \cup {"add_folder"}
    /\ UNCHANGED << offset, pwd, encoding, encryption, platform, out, opened >>

FolderNext ==
    \/ AddFromArchive
    \/ AddFolder

FolderSpec == ImportInit /\ [][FolderNext]_vars

(***************************************************************************)
(* Properties.  A path of the archive is its '/'-separated key; the calls  *)
(* spell it with '\' after the root '.', split between fn and fp.          *)
(***************************************************************************)
\* The key of the file that fn in fp names.
FileKey(fn, fp) == Replace(RemovePrefix(fp \o << BS >> \o fn, << DOT, BS >>), BS, FS)

\* The key of the folder that fn names at the root.
DirKey(fn) == Replace(RemovePrefix(fn, << DOT, BS >>), BS, FS) \o << FS >>

\* The names of the staging calls that only add to the table.
Adders == {"create_file", "add_file", "create_folder"}

\* The z.write calls of one kind in the file last saved.
WritesOf(kind) == SelectSeq(out.writes, LAMBDA w : w.kind = kind)

BytesOf(ws) == SumLens([i \in 1..Len(ws) |-> ws[i].bytes])

\* key is the key of a folder
IsDirKey(key) == key # << >> /\ key[Len(key)] = FS

\* Every ancestor directory of key is a key of table fs.
HasAncestors(fs, key) ==
    \A i \in 1..(Len(key) - 1) :
        key[i] \in {FS, BS} => DictHas(fs, Replace(SubSeq(key, 1, i), BS, FS))

\* C1: after create_file, add_file and create_folder calls only, save followed
\* by open succeeds and yields one entry per staged key, in table order, with
\* the staged name, the payload (entries are staged stored and unencrypted,
\* so the staged contents are the plaintext) and the comment given at
\* staging, and the archive comment passed to save.
C1_SaveOpenRoundTrip ==
    (last.op = "open" /\ history \subseteq (Adders \cup {"save", "open"}))
        => /\ opened.status = "ok"
           /\ Len(opened.files) = Len(out.files)
           /\ \A i \in 1..Len(out.files) :
                  /\ opened.files[i].filename = out.files[i].k
                  /\ opened.files[i].contents = out.files[i].v.contents
                  /\ opened.files[i].comment = DictGet(out.cd_headers, out.files[i].k).comment
           /\ opened.comment = out.comment

\* C2: in every archive written by save, the end record matches the output:
\* total_entries is the number of local records written, total_CD_entries the
\* number of central headers written, sizeof_CD their total length in bytes
\* and offset the position at which the first central header starts.
C2_EndRecordMatchesOutput ==
    last.op = "save"
        => /\ out.endof_cd.total_entries = Len(WritesOf("LFH"))
           /\ out.endof_cd.total_CD_entries = Len(WritesOf("CDH"))
           /\ out.endof_cd.sizeof_CD = BytesOf(WritesOf("CDH"))
           /\ out.endof_cd.offset = BytesOf(WritesOf("LFH"))

\* C3: the end record built by save has total_entries and total_CD_entries
\* both equal to the number of entries of the staged table at save time.
C3_EndRecordCountsTable ==
    last.op = "save"
        => /\ out.endof_cd.total_entries = Len(last.pre.files)
           /\ out.endof_cd.total_CD_entries = Len(last.pre.files)

\* C4: after create_file, add_file and create_folder calls only, every
\* ancestor directory of every key of the table is a key of the table,
\* whichever way the caller spelled the path.
C4_AncestorsStaged ==
    history \subseteq Adders
        => \A i \in 1..Len(files) : HasAncestors(files, files[i].k)

\* C5: the keys of the table are unique, and create_file or add_file on a
\* name already staged replaces that name's pair in one step: the keys and
\* every other pair are unchanged and sizeof_CD changes by the length of the
\* new central header minus the length of the old one.
C5_ReplaceInPlace ==
    /\ \A i, j \in 1..Len(files) : files[i].k = files[j].k => i = j
    /\ \A i, j \in 1..Len(cd_headers) : cd_headers[i].k = cd_headers[j].k => i = j
    /\ (/\ last.op \in {"create_file", "add_file"}
        /\ last.exc = "none"
        /\ DictHas(last.pre.files, last.arg.key))
           => /\ DictKeys(files) = DictKeys(last.pre.files)
              /\ DictKeys(cd_headers) = DictKeys(last.pre.cd_headers)
              /\ \A i \in 1..Len(files) :
                     files[i].k # last.arg.key => files[i] = last.pre.files[i]
              /\ \A i \in 1..Len(cd_headers) :
                     cd_headers[i].k # last.arg.key => cd_headers[i] = last.pre.cd_headers[i]
              /\ DictGet(files, last.arg.key).filename = last.arg.key
              /\ DictGet(cd_headers, last.arg.key).comment = last.arg.comment
              /\ sizeof_CD - last.pre.sizeof_CD
                     = Len(CDHeader_encode(DictGet(cd_headers, last.arg.key), encoding))
                       - Len(CDHeader_encode(DictGet(last.pre.cd_headers, last.arg.key),
                                             encoding))

\* C5 witness: a staged name was replaced by a pair whose central header has
\* another length, so sizeof_CD moved.
C5_Replaced ==
    /\ last.op \in {"create_file", "add_file"}
    /\ last.exc = "none"
    /\ DictHas(last.pre.files, last.arg.key)
    /\ Len(files) > 1
    /\ sizeof_CD # last.pre.sizeof_CD
    /\ DictGet(cd_headers, last.arg.key) # DictGet(last.pre.cd_headers, last.arg.key)

\* The structure left by removing the entries of pre whose path begins with p.
StructureWithout(pre, p) == SelectSeq(pre, LAMBDA st : ~StartsWith(st, p))

\* C6: removing a path that matches a file key or a directory key leaves
\* get_structure() equal to what it was minus the path and, for a directory,
\* minus every key below it, with nothing else removed, added or reordered;
\* removing the root removes every key.
C6_RemoveLaw ==
    /\ (last.op = "remove_file" /\ DictHas(last.pre.files, FileKey(last.fn, last.fp)))
           => get_structure(Self, << DOT >>).ret
                  = SelectSeq(get_structure(last.pre, << DOT >>).ret,
                              LAMBDA st : st # << DOT, BS >> \o Replace(FileKey(last.fn, last.fp),
                                                                          FS, BS))
    /\ (/\ last.op = "remove_folder"
        /\ last.fn # << DOT >>
        /\ DictHas(last.pre.files, DirKey(last.fn)))
           => get_structure(Self, << DOT >>).ret
                  = StructureWithout(get_structure(last.pre, << DOT >>).ret,
                                     << DOT, BS >> \o Replace(DirKey(last.fn), FS, BS))
    /\ (last.op = "remove_folder" /\ last.fn = << DOT >>)
           => get_structure(Self, << DOT >>).ret = << >>

\* C7: removing a path that matches neither a file key nor a directory key,
\* and is not the root, fails with FileNotFound and leaves the table as it was.
C7_RemoveAbsent ==
    /\ (last.op = "remove_file" /\ ~DictHas(last.pre.files, FileKey(last.fn, last.fp)))
           => last.exc = "FileNotFound" /\ Self = last.pre
    /\ (/\ last.op = "remove_folder"
        /\ last.fn # << DOT >>
        /\ ~DictHas(last.pre.files, DirKey(last.fn))
        /\ ~DictHas(last.pre.files, FileKey(last.fn, last.fp)))
           => last.exc = "FileNotFound" /\ Self = last.pre

\* C8: edit_file on a file key of the table, at any depth including the root,
\* succeeds and leaves the table as create_file with the same arguments
\* leaves it: the keys are unchanged and the entry holds the new contents.
C8_EditIsCreate ==
    (/\ last.op = "edit_file"
     /\ DictHas(last.pre.files, FileKey(last.fn, last.fp))
     /\ ~IsDirKey(FileKey(last.fn, last.fp)))
        => /\ last.exc = "none"
           /\ Self = create_file(last.pre, last.fn, [t |-> "str", v |-> last.arg.fd], last.fp,
                                 STORED, NORMAL, "utf-8", << >>).a
           /\ DictKeys(files) = DictKeys(last.pre.files)
           /\ DictGet(files, FileKey(last.fn, last.fp)).contents = EncodeStr(last.arg.fd)

\* C9: edit_file on a path that is not a key of the table fails with
\* FileNotFound and leaves the table as it was.
C9_EditAbsent ==
    (last.op = "edit_file" /\ ~DictHas(last.pre.files, FileKey(last.fn, last.fp)))
        => last.exc = "FileNotFound" /\ Self = last.pre

\* C10: create_folder leaves the table with the '/'-terminated key of the
\* path and of each of its ancestors, and a second create_folder of the same
\* path changes nothing.
C10_CreateFolder ==
    last.op = "create_folder"
        => /\ last.exc = "none"
           /\ DictHas(files, DirKey(last.fn))
           /\ HasAncestors(files, DirKey(last.fn))
           /\ create_folder(Self, last.fn, << DOT >>, "utf-8").a = Self

\* fp of get_structure: the root, a folder from the root, a folder that is
\* never staged, a folder spelled without the root, and a nested folder.
StructureArgs ==
    { << DOT >>, << DOT, BS, "a" >>, << DOT, BS, "b" >>, << "a" >>,
      << DOT, BS, "a", BS, "b" >> }

\* The keys of table fs that begin with sub, in table order, as paths from
\* the root.
KeysUnder(fs, sub) ==
    With(SelectSeq(DictKeys(fs), LAMBDA k : StartsWith(k, sub)),
         LAMBDA u : [i \in 1..Len(u) |-> << DOT, BS >> \o Replace(u[i], FS, BS)])

\* s is in strictly ascending order
Ascending(s) == \A i \in 1..Len(s) : \A j \in 1..Len(s) : i < j => StrLess(s[i], s[j])

\* C11: in every reachable state, get_structure(subtree) returns exactly the
\* keys of the table that lie under subtree (all keys for the root), each
\* once and in ascending key order, and for a subtree that is not a directory
\* key of the table it fails with FileNotFound.
C11_GetStructure ==
    /\ Ascending(DictKeys(files))
    /\ \A fp \in StructureArgs :
           With(get_structure(Self, fp), LAMBDA r :
               IF fp = << DOT >>
               THEN r.exc = "none" /\ r.ret = KeysUnder(files, << >>)
               ELSE IF DictHas(files, DirKey(fp))
               THEN r.exc = "none" /\ r.ret = KeysUnder(files, DirKey(fp))
               ELSE r.exc = "FileNotFound")

(***************************************************************************)
(* Properties of the reader, on the files of ReaderSpec.                   *)
(***************************************************************************)
\* The kinds of the records of the file, in order.
Kinds == [i \in 1..Len(out.writes) |-> out.writes[i].kind]

\* The file is a sound archive of one entry without data descriptor: the
\* local header of a sound entry, its central header and its end record.
ValidArchive ==
    /\ Kinds = << "LFH", "CDH", "EOCD" >>
    /\ out.writes[1].name \in {"c", "z"}
    /\ out.writes[2].name = out.writes[1].name
    /\ out.writes[3].name = out.writes[1].name

\* C12: open terminates on every finite stream that begins with a local file
\* header: four bytes that are none of the three signatures, and a short or
\* empty read at the end of a stream that has no end record, make it fail
\* with BadFile instead of reading further.
C12_OpenTerminates ==
    (last.op = "open" /\ Kinds[1] = "LFH")
        => /\ opened.status # "hang"
           /\ (\A i \in 1..Len(Kinds) : Kinds[i] # "EOCD") => opened.status = "BadFile"
           /\ (\E i \in 1..Len(Kinds) :
                   /\ Kinds[i] \in {"junk", "cut"}
                   /\ \A j \in 1..(i - 1) : Kinds[j] \in {"LFH", "CDH"})
                  => opened.status = "BadFile"

\* C13: open on a stream whose first four bytes are the end record's
\* signature succeeds with no decoded entry, no central header and the end
\* record parsed from the stream.
C13_EmptyArchive ==
    (last.op = "open" /\ Kinds[1] = "EOCD")
        => /\ opened.status = "ok"
           /\ opened.files = << >>
           /\ opened.cd_headers = << >>
           /\ opened.endof_CD = CDEnd___init_raw__(Written, 4, "utf-8").endof_cd

\* C14: every entry of an archive that open returns has the CRC-32 of its
\* decoded payload equal to its recorded crc and to the crc of the central
\* header of the same name: a mismatch makes open fail with BadFile.
C14_CrcLaw ==
    (last.op = "open" /\ opened.status = "ok")
        => \A i \in 1..Len(opened.files) :
               With(crc32(opened.files[i].contents), LAMBDA crc :
                   /\ opened.files[i].crc = crc
                   /\ \A j \in 1..Len(opened.cd_headers) :
                          opened.cd_headers[j].filename = opened.files[i].filename
                              => opened.cd_headers[j].crc = crc)

\* encode(parse(body)) for the body of one record, after its signature.
EncodeParsed(kind, body) ==
    IF kind = "LFH"
    THEN FileRaw_encode(FileRaw___init_raw__(body, 0, "utf-8").raw, "utf-8")
    ELSE IF kind = "CDH"
    THEN CDHeader_encode(CDHeader___init_raw__(body, 0, "utf-8").header, "utf-8")
    ELSE CDEnd_encode(CDEnd___init_raw__(body, 0, "utf-8").endof_cd, "utf-8")

\* The records of stream bs from position p on, parsed as open parses them
\* and encoded again in the order read, appended to acc.
RECURSIVE WriteBack(_, _, _)
WriteBack(bs, p, acc) ==
    LET Local(r) ==
            IF r.exc # "none" THEN [ok |-> FALSE, bytes |-> acc]
            ELSE WriteBack(bs, r.pos, acc \o FileRaw_encode(r.raw, "utf-8"))
        Central(r) ==
            IF r.exc # "none" THEN [ok |-> FALSE, bytes |-> acc]
            ELSE WriteBack(bs, r.pos, acc \o CDHeader_encode(r.header, "utf-8"))
        End(r) ==
            IF r.exc # "none" THEN [ok |-> FALSE, bytes |-> acc]
            ELSE [ok |-> TRUE, bytes |-> acc \o CDEnd_encode(r.endof_cd, "utf-8")]
        Dispatch(signature, q) ==
            IF signature = PK0304 THEN With(FileRaw___init_raw__(bs, q, "utf-8"), Local)
            ELSE IF signature = PK0102 THEN With(CDHeader___init_raw__(bs, q, "utf-8"), Central)
            ELSE IF signature = PK0506 THEN With(CDEnd___init_raw__(bs, q, "utf-8"), End)
            ELSE [ok |-> FALSE, bytes |-> acc]
    IN  Dispatch(Slice(bs, p, p + 4), Advance(bs, p, 4))

\* C20: for a sound archive without data descriptors, parsing it and writing
\* the parsed records back in the order read reproduces the archive byte for
\* byte, and every local header, central header and end record is reproduced
\* by encode(parse(bytes)).
C20_RoundTrip ==
    (last.op = "open" /\ ValidArchive)
        => /\ WriteBack(Written, 0, << >>) = [ok |-> TRUE, bytes |-> Written]
           /\ \A i \in 1..Len(out.writes) :
                  With(Slice(out.writes[i].bytes, 4, Len(out.writes[i].bytes)), LAMBDA body :
                      EncodeParsed(out.writes[i].kind, body) = body)

(***************************************************************************)
(* Properties of the algorithms, on the calls of AlgSpec.                  *)
(***************************************************************************)
\* What the claim expects of decrypt on the call recorded in last.
DecryptExpected ==
    IF last.bit_flag[1] = 0
    THEN last.r.exc = "none" /\ last.r.data = last.contents
    ELSE IF last.password.none \/ last.password.val = << >>
    THEN last.r.exc = "WrongPassword"
    ELSE With(DecryptFrom(ZipDecrypter_init(last.password.val), last.contents), LAMBDA d :
             IF d[12] # WordBytes(last.crc)[4]
             THEN last.r.exc = "WrongPassword"
             ELSE last.r.exc = "none" /\ last.r.data = SubSeq(d, 13, Len(d)))

C16_CipherInverse ==
    last.op = "cipher"
        => /\ last.z = last.x
           /\ last.enc = last.dec
           /\ \A k \in {last.enc.key0, last.enc.key1, last.enc.key2} :
                  Len(k) = 32 /\ \A i \in 1..32 : k[i] \in {0, 1}
           /\ last.y = EncryptFrom(ZipDecrypter_init(last.password), last.x)
           /\ DecryptFrom(ZipDecrypter_init(last.password), last.y) = last.x

\* C16 witness: MaxBytes bytes went through both ciphers and the ciphertext
\* differs from the plaintext in every byte.
C16_Passed ==
    /\ last.op = "cipher"
    /\ Len(last.x) = MaxBytes
    /\ \A i \in 1..MaxBytes : last.y[i] # last.x[i]
    /\ last.enc # ZipDecrypter_init(last.password)

\* C17: for every method compress encodes (Stored, Deflate, Deflate64, BZIP2,
\* Zstandard, XZ), every level and every byte string x, compress succeeds
\* and decompress of the same method on its result returns x.
C17_CodecInverse ==
    last.op = "codec"
        => /\ last.c.exc = "none"
           /\ last.d.exc = "none"
           /\ last.d.data = last.x

\* The ids of the method table, the reserved ids and the deprecated ids.
TableIds == { 0, 8, 9, 10, 12, 19, 93, 95 }
ReservedIds == { 11, 13, 15, 17 }
DeprecatedIds == { 6, 7, 20 }

\* The ids APPNOTE assigns to methods that have no decoder here: 1-5
\* (Shrink, Reduce) and 14 (LZMA), which fail with NotImplementedError.
UnimplementedIds == (1..5) \cup { 14 }

\* C18: decompress fails with ReservedValue for the ids 11, 13, 15 and 17,
\* with Deprecated for 6, 7 and 20, and with the unknown-method error
\* (BadFile) for every other id outside the method table; for none of these
\* ids does it return a payload.
C18_Dispatch ==
    last.op = "decompress"
        => /\ last.id \in ReservedIds => last.r.exc = "ReservedValue"
           /\ last.id \in DeprecatedIds => last.r.exc = "Deprecated"
           /\ last.id \notin (TableIds \cup ReservedIds \cup DeprecatedIds \cup UnimplementedIds)
                  => last.r.exc = "BadFile"
           /\ last.id \notin TableIds => last.r.exc # "none"

\* extra begins with a 0x0001 record that holds the two 64-bit sizes.
Zip64Record(extra, usize, csize) ==
    /\ Slice(extra, 0, 2) = << 1, 0 >>
    /\ Slice(extra, 4, 12) = usize
    /\ Slice(extra, 12, 20) = csize

\* C19: for an entry whose encoded size or plaintext size is at least
\* 2^32 - 1, the local header and the central header written by save carry
\* 0xFFFFFFFF in both legacy size fields and a 0x0001 extra record with the
\* true 64-bit sizes, and extra_field_length is the length of the extra field
\* written; an entry whose sizes are both at most 0xFFFFFFFE is written with
\* its sizes in the legacy fields and no 0x0001 record.
C19_Zip64Promotion ==
    last.op = "stage_large"
        => /\ last.r.exc = "none"
           /\ \A h \in {last.r.lfh, last.r.cdh} :
                  IF Size8Ge(last.usize) \/ Size8Ge(last.csize)
                  THEN /\ h.compressed_size = INT32_MAX_BYTES
                       /\ h.uncompressed_size = INT32_MAX_BYTES
                       /\ Zip64Record(h.extra_field, last.usize, last.csize)
                       /\ h.extra_field_length = Len(h.extra_field)
                  ELSE /\ h.compressed_size = SubSeq(last.csize, 1, 4)
                       /\ h.uncompressed_size = SubSeq(last.usize, 1, 4)
                       /\ Slice(h.extra_field, 0, 2) # << 1, 0 >>
                       /\ h.extra_field_length = Len(h.extra_field)

\* The name and the local_header_relative_offset field in the bytes of a
\* central header as encode writes it (42 fixed bytes, the offset last).
WrittenName(bytes) == Slice(bytes, 42, 42 + FromBytes(Slice(bytes, 24, 26)))
WrittenOffset(bytes) == Slice(bytes, 38, 42)

\* C24: save writes one local record with its payload per entry of the table,
\* in table order, then exactly one central header per local record written,
\* in the same order, then the end record; and the offset field of each
\* central header is the position at which the local record of the same name
\* begins, the sum of the lengths of the local records written before it.
C24_SaveLayout ==
    last.op = "save"
        => LET n == Len(last.pre.files)
               w == out.writes
           IN  /\ Len(w) = 2 * n + 1
               /\ w[Len(w)].kind = "EOCD"
               /\ \A i \in 1..n :
                      /\ w[i].kind = "LFH"
                      /\ w[i].bytes = FileRaw_encode(last.pre.files[i].v, encoding)
                      /\ w[n + i].kind = "CDH"
                      /\ WrittenName(w[n + i].bytes) = EncodeStr(last.pre.files[i].k)
                      /\ WrittenOffset(w[n + i].bytes)
                             = ToBytes(SumLens([j \in 1..(i - 1) |-> w[j].bytes]), 4)

Forbidden(name) == \E i \in 1..Len(name) : name[i] \in ILLEGAL_CHARS

\* The calls that take a path of the archive.
PathCalls == {"create_file", "add_file", "edit_file", "remove_file", "create_folder"}

\* C23: a create_file, add_file, edit_file, remove_file or create_folder call
\* whose name has a forbidden character in any component fails with the
\* illegal-path error (ValueError), and leaves the staged table as it was: no
\* key added, not even an ancestor directory, none replaced or removed, and
\* running_cd_size unchanged.
C23_IllegalPath ==
    (last.op \in PathCalls /\ (Forbidden(last.fn) \/ Forbidden(last.fp)))
        => /\ last.exc = "ValueError"
           /\ Self = last.pre

\* C26: every staged entry whose key ends in '/' has no payload bytes,
\* compression method Stored and CRC 0, whatever the password and the
\* encryption of the archive.
C26_DirectoryEntries ==
    \A i \in 1..Len(files) :
        IsDirKey(files[i].k)
            => /\ files[i].v.contents = << >>
               /\ files[i].v.compression_method = 0
               /\ WordBytes(files[i].v.crc) = << 0, 0, 0, 0 >>

\* The bits the flag of an entry staged by the last call must have set.
ExpectedBits ==
    (IF encryption # UNENCRYPTED THEN {0} ELSE {})
    \cup (IF last.arg.compression \in {DEFLATE, DEFLATE64}
          THEN (IF last.arg.level = FAST THEN {2}
                ELSE IF last.arg.level = MAXIMUM THEN {1} ELSE {})
          ELSE {})
    \cup (IF last.arg.enc = "utf-8" /\ Utf8Valid(last.arg.data) /\ ~IsDirKey(last.arg.key)
          THEN {11} ELSE {})

\* C28: the flag of an entry staged by create_file or add_file has bit 0 set
\* iff the archive is encrypted; for Deflate and Deflate64 bit 2 alone for
\* level Fast, bit 1 alone for Maximum and neither for Normal; bit 11 iff the
\* encoding is UTF-8, the payload decodes as UTF-8 and the entry is not a
\* directory; every other bit 0; and the local record and the central header
\* carry the same flag.
C28_BitFlag ==
    (last.op \in {"create_file", "add_file"} /\ last.exc = "none")
        => /\ DictGet(files, last.arg.key).bit_flag = BitFlag(ExpectedBits)
           /\ DictGet(cd_headers, last.arg.key).bit_flag = BitFlag(ExpectedBits)

\* The largest element of a set of numbers.
Max(S) == CHOOSE m \in S : \A n \in S : n <= m

\* The version needed by an entry of the given compression, staged in folder
\* fp, whose sizes do (zip64) or do not require ZIP64.
ExpectedVersion(compression, fp, zip64) ==
    Max({10}
        \cup (IF encryption = ZIP_CRYPTO \/ compression = DEFLATE \/ fp # << DOT >>
              THEN {20} ELSE {})
        \cup (IF compression = DEFLATE64 THEN {21} ELSE {})
        \cup (IF compression = PKWARE_IMPLODING THEN {25} ELSE {})
        \cup (IF zip64 THEN {45} ELSE {})
        \cup (IF compression = BZIP THEN {46} ELSE {}))

\* C27: the version needed in the local record and in the central header of
\* a staged entry is the maximum of the values that apply to it: 10 always;
\* 20 if the archive uses ZipCrypto, the method is Deflate or the entry is in
\* a folder; 21 for Deflate64; 25 for PKWARE imploding; 45 if its compressed
\* or its uncompressed size requires ZIP64; 46 for BZIP2.
C27_VersionNeeded ==
    /\ (last.op \in {"create_file", "add_file"} /\ last.exc = "none")
           => \A rec \in {DictGet(files, last.arg.key), DictGet(cd_headers, last.arg.key)} :
                  rec.version_needed_to_exctract
                      = ExpectedVersion(last.arg.compression, last.fp, FALSE)
    /\ (last.op = "stage_large" /\ last.r.exc = "none")
           => \A rec \in {last.r.file, last.r.cd_header} :
                  rec.version_needed_to_exctract
                      = ExpectedVersion(STORED, << DOT >>,
                                        Size8Ge(last.usize) \/ Size8Ge(last.csize))

\* The staged entry under a key, decoded with the password of the table as
\* the reader decodes a local record.
Restaged(key) == FileRaw_decode(DictGet(files, key), pwd)

\* C21: after edit or set_password on an opened archive the call returns, the
\* new table holds exactly one entry per decoded entry of the source, under
\* the same filename and with the same plaintext, compression method and
\* level; after set_password every staged entry carries the encryption bit;
\* and the entries of the source are as they were.
C21_Restaged ==
    (last.op \in {"edit", "set_password"})
        => /\ last.exc = "none"
           /\ Len(files) = Len(last.source)
           /\ \A i \in 1..Len(last.source) :
                  /\ DictHas(files, last.source[i].filename)
                  /\ With(Restaged(last.source[i].filename), LAMBDA d :
                          /\ d.exc = "none"
                          /\ d.file.contents = last.source[i].contents
                          /\ d.file.compression_method = last.source[i].compression_method
                          /\ d.file.compression_level = last.source[i].compression_level)
                  /\ last.op = "set_password"
                         => DictGet(files, last.source[i].filename).bit_flag[1] = 1
           /\ opened.files = last.source

\* The ways ZipFile.open is left: a return, or one of its exceptions.
OpenExits == {"ok", "BadFile", "WrongPassword", "IndexError", "TypeError", "ValueError",
              "UnicodeDecodeError", "NotImplementedError", "error"}

\* C29: when open is given a path it opens the stream itself and the stream
\* is closed however open is left (return, empty archive, BadFile or any
\* other exception); when open is given a stream of the caller, or anything
\* else that is no path, it closes nothing.
C29_StreamClosed ==
    (last.op \in {"open", "open_supplied"} /\ opened.status # "hang")
        => /\ last.f \in PathArgs => (last.indirect /\ last.closed)
           /\ last.f \in SuppliedArgs => (~last.indirect /\ ~last.closed)

\* An open of the path that is left with BadFile after it made the stream,
\* the stream closed.
C29_Closed ==
    /\ last.op = "open"
    /\ opened.status = "BadFile"
    /\ last.indirect
    /\ last.closed

\* A path of the interface ('.', '.\a\b', 'a\b') as the prefix of the keys
\* under it: no leading '.\', '/' for '\'.
KeyPrefix(p) ==
    Replace(IF p = << DOT >> THEN << >> ELSE RemovePrefix(p, << DOT, BS >>), BS, FS)

\* The key and every ancestor directory key of it.
WithAncestors(key) ==
    {key} \cup { SubSeq(key, 1, i) : i \in { j \in 1..Len(key) : key[j] = FS } }

\* The keys add_from_archive(src, subtree, dest) is to stage: each entry of
\* the source whose name starts with subtree, under dest at its path
\* relative to subtree, with the ancestors it needs.
ImportedKeys(subtree, dest) ==
    LET sub == KeyPrefix(subtree)
        to == IF KeyPrefix(dest) = << >> THEN << >> ELSE KeyPrefix(dest) \o << FS >>
        Chosen == { i \in 1..Len(SourceEntries) : StartsWith(SourceEntries[i].name, sub) }
        New == { to \o Slice(SourceEntries[i].name, Len(sub), Len(SourceEntries[i].name)) :
                     i \in Chosen }
    IN  (UNION { WithAncestors(k) : k \in New }) \ { << >> }

\* C22: add_from_archive(src, subtree, dest), subtree the root or a folder
\* path with its final separator, returns and leaves as keys exactly the keys
\* staged before, the selected entries at their path relative to subtree
\* under dest and the ancestor directories of those; each selected file is
\* staged with its payload.
C22_AddFromArchive ==
    (last.op = "add_from_archive" /\ (last.fn = << DOT >> \/ last.fn[Len(last.fn)] = BS))
        => /\ last.exc = "none"
           /\ { files[i].k : i \in 1..Len(files) }
                  = { last.pre.files[i].k : i \in 1..Len(last.pre.files) }
                    \cup ImportedKeys(last.fn, last.fp)
           /\ \A i \in 1..Len(SourceEntries) :
                  With(SourceEntries[i], LAMBDA e :
                      StartsWith(e.name, KeyPrefix(last.fn)) /\ e.name[Len(e.name)] # FS
                          => \E j \in 1..Len(files) :
                                 /\ files[j].k
                                        = (IF KeyPrefix(last.fp) = << >> THEN << >>
                                           ELSE KeyPrefix(last.fp) \o << FS >>)
                                          \o Slice(e.name, Len(KeyPrefix(last.fn)), Len(e.name))
                                 /\ files[j].v.contents = e.contents)

\* C25: add_folder in its parallel mode (use_mp, at least 36 files) ends as
\* the sequential add_folder on the same table and tree ends, and leaves the
\* table and _sizeof_CD that one leaves, whatever the size of the batches
\* and whatever was staged before; every directory a staged key lies in has
\* its marker.
C25_ParallelAsSequential ==
    (/\ last.op = "add_folder"
     /\ last.arg.use_mp
     /\ Len(get_all_files(last.fn, last.fp, STORED, NORMAL, << >>)) >= MinParallel
     /\ Disk(last.fn).exists /\ Disk(last.fn).isdir /\ last.fp[1] = DOT)
        => /\ With(add_folder(last.pre, last.fn, last.fp, STORED, NORMAL, << >>, FALSE,
                              last.arg.cpus),
                   LAMBDA seq : last.exc = seq.exc /\ Self = seq.a)
           /\ \A i \in 1..Len(files) : HasAncestors(files, files[i].k)
====
